---------------------------- MODULE Spec2Model ----------------------------
(***************************************************************************)
(* Admission control and retry engine of youtube-timestamp-generator:      *)
(* SlidingWindow, RateLimiter, AdaptiveRateLimiter, FailureTracker,        *)
(* executeWithRetry and processVideoInBackground.                          *)
(*                                                                         *)
(* Scheduling model: the JavaScript event loop.  One action is one         *)
(* macrotask (a call from outside, a timer firing, a remote call           *)
(* returning) together with all promise continuations (microtasks) it      *)
(* triggers, up to the next await of a timer or of a remote call.          *)
(* Time is Date.now() in milliseconds.  Floating point numbers are         *)
(* modelled as exact rationals <<numerator, denominator>>.                 *)
(***************************************************************************)
EXTENDS Integers, Sequences, FiniteSets, TLC

(***************************************************************************)
(* Bounds of the model                                                     *)
(***************************************************************************)
\* number of acquire / tryAcquire calls made on one limiter
MaxReq == 3
\* the clock stops advancing after MaxNow milliseconds
MaxNow == 130000
\* the clock step of the idle event loop, in milliseconds
TickMs == 30000

(***************************************************************************)
(* Program constants                                                       *)
(***************************************************************************)
windowMs == 60000
accuracyHistorySize == 20
maxConsecutiveFailures == 3
maxTotalFailures == 5
baseRetryDelayMs == 1000
maxRetryDelayMs == 60000
backoffMultiplier == 2
maxConcurrent == 10

\* entry.actual before recordActual (null in the source)
NULL == -1
\* Math.ceil(NaN): a token count that is not a number
NaNTokens == -2

Max(a, b) == IF a >= b THEN a ELSE b
Min(a, b) == IF a <= b THEN a ELSE b

(***************************************************************************)
(* Exact rationals standing for the source's floating point numbers        *)
(***************************************************************************)
RECURSIVE Gcd(_, _)
Gcd(a, b) == IF b = 0 THEN a ELSE Gcd(b, a % b)

Rat(n, d) ==
  LET g == Gcd(IF n < 0 THEN -n ELSE n, d)
  IN  IF g = 0 THEN <<0, 1>> ELSE <<n \div g, d \div g>>

RatAdd(x, y) == Rat(x[1] * y[2] + y[1] * x[2], x[2] * y[2])
RatSub(x, y) == Rat(x[1] * y[2] - y[1] * x[2], x[2] * y[2])
RatMul(x, y) == Rat(x[1] * y[1], x[2] * y[2])
RatLeq(x, y) == x[1] * y[2] <= y[1] * x[2]
RatMax(x, y) == IF RatLeq(x, y) THEN y ELSE x
RatMin(x, y) == IF RatLeq(x, y) THEN x ELSE y
\* Math.floor and Math.ceil of a non-negative rational
Floor(x) == x[1] \div x[2]
Ceil(x) == (x[1] + x[2] - 1) \div x[2]

RECURSIVE RatMaxOf(_)
RatMaxOf(s) ==
  IF Len(s) = 1 THEN s[1] ELSE RatMax(s[1], RatMaxOf(Tail(s)))

\* IEEE 754 results that are no rational: 0/0 and x/0 for x > 0
NaN == <<0, 0>>
Infinity == <<1, 0>>
IsNaN(x) == x = NaN
\* Math.max(...s): NaN when any element is NaN
MathMaxOf(s) ==
  IF \E i \in 1..Len(s) : IsNaN(s[i]) THEN NaN
  ELSE IF \E i \in 1..Len(s) : s[i] = Infinity THEN Infinity
  ELSE RatMaxOf(s)

RECURSIVE SumSeq(_)
SumSeq(s) == IF s = <<>> THEN 0 ELSE s[1] + SumSeq(Tail(s))

(***************************************************************************)
(* Configuration defaults of AdaptiveRateLimiter                           *)
(***************************************************************************)
initialSafetyMultiplier == <<6, 5>>
minSafetyMultiplier == <<1, 1>>
maxSafetyMultiplier == <<5, 2>>
bufferPercent == <<1, 10>>

\* the (tpm, rpm) configurations a limiter is constructed with
Configs == { [tpm |-> 67, rpm |-> 10], [tpm |-> 123, rpm |-> 3] }
\* the token estimates passed to acquire
EstSet == {10, 40}
\* the actual costs the remote service may report for an estimate
ActualSet(est) == {0, 3 * est}

RequestIds == 1..MaxReq

VARIABLES
  sys,               \* which object was constructed: "arl", "sw", "rl", "ft", "job"
  now,               \* Date.now()
  tpmLimit,          \* effective token limit (SlidingWindow: limit)
  rpmLimit,          \* effective request limit
  window,            \* AdaptiveRateLimiter.window
  acquireChain,      \* acquire calls queued on the promise chain, oldest first
  internal,          \* the acquireInternal call in progress (asleep), or NoCall
  safetyMultiplier,  \* AdaptiveRateLimiter.safetyMultiplier
  accuracyHistory,   \* AdaptiveRateLimiter.accuracyHistory
  requests,          \* per request id: its caller's position and estimate
  admitted,          \* history: <<requestId, timestamp>> of every admission, in order
  slidingWindow,     \* a SlidingWindow on its own: [limit, requestLog]
  tpmWindow,         \* RateLimiter.tpmWindow: [limit, requestLog]
  rpmWindow,         \* RateLimiter.rpmWindow: [limit, requestLog]
  failureTracker,    \* FailureTracker: [consecutiveFailures, totalFailures]
  ftLog,             \* history: the recordFailure ("F") and recordSuccess ("S") calls, in order
  ftReturn,          \* what the last recordFailure returned
  job,               \* the job in the store: [status, error, result]
  chunks,            \* the job's chunks in the store: [status, retryCount, hasResult]
  tasks,             \* per executeWithRetry call (0: consolidation, c: chunk c): its position
  orch,              \* position of processVideoInBackground
  aborted,           \* processVideoInBackground's aborted flag
  chunkResults,      \* processVideoInBackground's chunkResults, as chunk ids in push order
  tripped,           \* history: shouldAbort() has been true at some point
  applied            \* the last call of a function without state: its arguments and result

\* the clock, the promise chain and the callers: shared by the three limiters
chainVars == <<now, acquireChain, internal, requests, admitted>>
arlVars == <<tpmLimit, rpmLimit, window, safetyMultiplier, accuracyHistory>>
swVars == <<slidingWindow, tpmWindow, rpmWindow>>

ftVars == <<failureTracker, ftLog, ftReturn>>
jobVars == <<ftVars, job, chunks, tasks, orch, aborted, chunkResults, tripped>>

vars == <<sys, applied, chainVars, arlVars, swVars, jobVars>>

NoCall == [requestId |-> 0, tokens |-> 0, wakeAt |-> 0]
\* no function without state has been called
NotApplied == [fn |-> "none"]
\* a SlidingWindow that was not constructed
NoWindow == [limit |-> 0, requestLog |-> <<>>]
\* no job was created
NoJob ==
  /\ failureTracker = [consecutiveFailures |-> 0, totalFailures |-> 0]
  /\ ftLog = <<>>
  /\ ftReturn = TRUE
  /\ job = [status |-> "none", error |-> "", result |-> ""]
  /\ chunks = <<>>
  /\ tasks = <<>>
  /\ orch = "none"
  /\ aborted = FALSE
  /\ chunkResults = <<>>
  /\ tripped = FALSE
\* no rate limiter was constructed
NoLimiter ==
  /\ tpmLimit = 0
  /\ rpmLimit = 0
  /\ window = <<>>
  /\ safetyMultiplier = initialSafetyMultiplier
  /\ accuracyHistory = <<>>
  /\ acquireChain = <<>>
  /\ internal = NoCall
  /\ requests = <<>>
  /\ admitted = <<>>
  /\ slidingWindow = NoWindow
  /\ tpmWindow = NoWindow
  /\ rpmWindow = NoWindow

(***************************************************************************)
(* AdaptiveRateLimiter: pure parts                                         *)
(***************************************************************************)
\* constructor: the effective limits
ArlTpmLimit(tpm) == Floor(RatMul(<<tpm, 1>>, RatSub(<<1, 1>>, bufferPercent)))
ArlRpmLimit(rpm) == Max(1, rpm - 1)

\* acquireInternal: const safeEstimate = Math.ceil(estimatedTokens * safetyMultiplier)
SafeEstimate(estimatedTokens, mult) ==
  IF IsNaN(mult) THEN NaNTokens ELSE Ceil(RatMul(<<estimatedTokens, 1>>, mult))

\* pruneWindow: keep the entries with timestamp > now - windowMs
PruneWindow(w, t) == SelectSeq(w, LAMBDA e : e.timestamp > t - windowMs)

\* entry.actual || entry.estimated: an actual cost of 0 counts as missing
EntryTokensOr(e) == IF e.actual # NULL /\ e.actual # 0 THEN e.actual ELSE e.estimated

\* entry.actual ?? entry.estimated
EntryTokens(e) == IF e.actual # NULL THEN e.actual ELSE e.estimated

\* getWindowUsage
RECURSIVE TokensUsed(_)
TokensUsed(w) == IF w = <<>> THEN 0 ELSE EntryTokens(w[1]) + TokensUsed(Tail(w))
RequestsUsed(w) == Len(w)

\* the two admission checks of acquireInternal
TpmOkBeforeAdding(tokensUsed, safeEstimate) == tokensUsed <= tpmLimit
RpmOkBeforeAdding(requestsUsed) == requestsUsed <= rpmLimit
\* a comparison with NaN is false
TpmOk(tokensUsed, safeEstimate) ==
  safeEstimate # NaNTokens /\ tokensUsed + safeEstimate <= tpmLimit
RpmOk(requestsUsed) == requestsUsed + 1 <= rpmLimit

\* calculateWaitTime: the loop over the window that frees tokens
RECURSIVE TpmWaitLoop(_, _, _, _)
TpmWaitLoop(w, i, tokensToFree, t) ==
  LET left == tokensToFree - EntryTokens(w[i])
      wait == w[i].timestamp + windowMs - t + 100
  IN  IF left <= 0 \/ i = Len(w) THEN wait ELSE TpmWaitLoop(w, i + 1, left, t)

CalculateWaitTime(w, t, tokensNeeded) ==
  IF Len(w) = 0 THEN 1000
  ELSE LET tokensUsed == TokensUsed(w)
           tpmWait == IF tokensNeeded # NaNTokens /\ tokensUsed + tokensNeeded > tpmLimit
                      THEN TpmWaitLoop(w, 1, tokensUsed + tokensNeeded - tpmLimit, t)
                      ELSE 0
           rpmWait == IF RequestsUsed(w) + 1 > rpmLimit
                      THEN w[1].timestamp + windowMs - t + 100
                      ELSE 0
       IN  Max(Max(tpmWait, rpmWait), 100)

\* one iteration of the while loop of acquireInternal, at time t
ArlIterate(requestId, safeEstimate, w, t) ==
  LET pruned == PruneWindow(w, t)
  IN  IF TpmOk(TokensUsed(pruned), safeEstimate) /\ RpmOk(RequestsUsed(pruned))
      THEN [ok |-> TRUE,
            window |-> Append(pruned, [timestamp |-> t, requestId |-> requestId,
                                       estimated |-> safeEstimate, actual |-> NULL]),
            wakeAt |-> 0]
      ELSE [ok |-> FALSE, window |-> pruned,
            wakeAt |-> t + Max(CalculateWaitTime(pruned, t, safeEstimate), 100)]

\* The promise chain: each queued acquire starts its acquireInternal when the one
\* before it has returned; the chain runs on until one call goes to sleep.
RECURSIVE ArlRunChain(_, _, _, _, _)
ArlRunChain(chain, w, adm, t, mult) ==
  IF chain = <<>>
  THEN [acquireChain |-> <<>>, internal |-> NoCall, window |-> w, admitted |-> adm]
  ELSE LET call == Head(chain)
           safe == SafeEstimate(call.tokens, mult)
           it == ArlIterate(call.requestId, safe, w, t)
       IN  IF it.ok
           THEN ArlRunChain(Tail(chain), it.window,
                            Append(adm, <<call.requestId, t>>), t, mult)
           ELSE [acquireChain |-> Tail(chain),
                 internal |-> [requestId |-> call.requestId, tokens |-> safe,
                               wakeAt |-> it.wakeAt],
                 window |-> it.window, admitted |-> adm]

\* acquire without the chain: the new call is decided at once, whoever is asleep
ArlOnAcquireUnserialized(chain, cur, w, adm, t, mult) ==
  IF cur = NoCall THEN ArlRunChain(chain, w, adm, t, mult)
  ELSE LET call == chain[Len(chain)]
           it == ArlIterate(call.requestId, SafeEstimate(call.tokens, mult), w, t)
       IN  IF it.ok
           THEN [acquireChain |-> SubSeq(chain, 1, Len(chain) - 1), internal |-> cur,
                 window |-> it.window, admitted |-> Append(adm, <<call.requestId, t>>)]
           ELSE [acquireChain |-> chain, internal |-> cur, window |-> w, admitted |-> adm]

\* acquire: the call waits on the chain while an acquireInternal is in progress,
\* and starts at once when none is
ArlOnAcquire(chain, cur, w, adm, t, mult) ==
  IF cur # NoCall
  THEN [acquireChain |-> chain, internal |-> cur, window |-> w, admitted |-> adm]
  ELSE ArlRunChain(chain, w, adm, t, mult)

\* adaptSafetyMultiplier
AdaptSafetyMultiplier(mult, history) ==
  IF Len(history) < 5 THEN mult
  ELSE LET recent == SubSeq(history, Max(1, Len(history) - 9), Len(history))
           maxAccuracy == MathMaxOf(recent)
           targetMultiplier == RatMul(maxAccuracy, <<11, 10>>)
           newMultiplier == RatAdd(mult, RatMul(RatSub(targetMultiplier, mult), <<1, 5>>))
       IN  \* Math.max(min, Math.min(max, newMultiplier)): NaN stays NaN
           IF IsNaN(maxAccuracy) \/ IsNaN(mult) THEN NaN
           ELSE IF maxAccuracy = Infinity
                THEN RatMax(minSafetyMultiplier, maxSafetyMultiplier)
                ELSE RatMax(minSafetyMultiplier, RatMin(maxSafetyMultiplier, newMultiplier))

\* recordActual: accuracy = actualTokens / (entry.estimated / safetyMultiplier)
Accuracy(actualTokens, previousEstimate, mult) ==
  IF IsNaN(mult) THEN NaN
  ELSE IF previousEstimate = 0
       THEN (IF actualTokens = 0 THEN NaN ELSE Infinity)
       ELSE RatMul(<<actualTokens, 1>>, Rat(mult[1], mult[2] * previousEstimate))

PushAccuracy(history, accuracy) ==
  LET h == Append(history, accuracy)
  IN  IF Len(h) > accuracyHistorySize THEN Tail(h) ELSE h

\* index of the first entry of the window with this requestId, 0 when none
FindEntry(w, requestId) ==
  LET hits == {i \in 1..Len(w) : w[i].requestId = requestId}
  IN  IF hits = {} THEN 0 ELSE CHOOSE i \in hits : \A j \in hits : i <= j

Admitted(adm) == {adm[i][1] : i \in 1..Len(adm)}

\* the callers whose acquire has returned
MarkAdmitted(reqs, adm) ==
  [r \in DOMAIN reqs |->
     IF r \in Admitted(adm) /\ reqs[r].st = "called"
     THEN [reqs[r] EXCEPT !.st = "admitted"] ELSE reqs[r]]

\* acquire: this.acquireChain.then(...) puts the call behind every earlier one
Enqueue(chain, call) == Append(chain, call)

\* request ids are issued in order: r is the next one to be used
IsNextCall(r) ==
  /\ requests[r].st = "new"
  /\ \A q \in DOMAIN requests : q < r => requests[q].st # "new"

(***************************************************************************)
(* AdaptiveRateLimiter: operations                                         *)
(***************************************************************************)
InitArl ==
  /\ sys = "arl"
  /\ applied = NotApplied
  /\ now = 0
  /\ \E c \in Configs :
       /\ tpmLimit = ArlTpmLimit(c.tpm)
       /\ rpmLimit = ArlRpmLimit(c.rpm)
  /\ window = <<>>
  /\ acquireChain = <<>>
  /\ internal = NoCall
  /\ safetyMultiplier = initialSafetyMultiplier
  /\ accuracyHistory = <<>>
  /\ requests = [r \in RequestIds |-> [st |-> "new", est |-> 0]]
  /\ admitted = <<>>
  /\ NoJob
  /\ slidingWindow = NoWindow
  /\ tpmWindow = NoWindow
  /\ rpmWindow = NoWindow

\* what a step of the chain leaves behind
ArlSetChain(res, reqs) ==
  /\ acquireChain' = res.acquireChain
  /\ internal' = res.internal
  /\ window' = res.window
  /\ admitted' = res.admitted
  /\ requests' = MarkAdmitted(reqs, res.admitted)

\* acquire(estimatedTokens, requestId)
ArlAcquire(r, est) ==
  /\ sys = "arl"
  /\ IsNextCall(r)
  /\ LET reqs == [requests EXCEPT ![r] = [st |-> "called", est |-> est]]
         chain == Enqueue(acquireChain, [requestId |-> r, tokens |-> est])
     IN  ArlSetChain(ArlOnAcquire(chain, internal, window, admitted, now,
                                  safetyMultiplier), reqs)
  /\ UNCHANGED <<sys, applied, now, tpmLimit, rpmLimit, safetyMultiplier, accuracyHistory, swVars, jobVars>>

\* the sleep of acquireInternal ends (at its due time or later) and the loop runs again
ArlWake ==
  /\ sys = "arl"
  /\ internal # NoCall
  /\ LET t == Max(now, internal.wakeAt)
         it == ArlIterate(internal.requestId, internal.tokens, window, t)
     IN  /\ t <= MaxNow
         /\ now' = t
         /\ IF it.ok
            THEN ArlSetChain(ArlRunChain(acquireChain, it.window,
                                         Append(admitted, <<internal.requestId, t>>),
                                         t, safetyMultiplier), requests)
            ELSE /\ internal' = [internal EXCEPT !.wakeAt = it.wakeAt]
                 /\ window' = it.window
                 /\ UNCHANGED <<acquireChain, admitted, requests>>
  /\ UNCHANGED <<sys, applied, tpmLimit, rpmLimit, safetyMultiplier, accuracyHistory, swVars, jobVars>>

\* recordActual(requestId, actualTokens)
ArlRecordActual(r, actualTokens) ==
  /\ sys = "arl"
  /\ requests[r].st = "admitted"
  /\ requests' = [requests EXCEPT ![r].st = "recorded"]
  /\ LET i == FindEntry(window, r)
     IN  IF i = 0
         THEN UNCHANGED <<window, accuracyHistory, safetyMultiplier>>
         ELSE LET history == PushAccuracy(accuracyHistory,
                               Accuracy(actualTokens, window[i].estimated, safetyMultiplier))
              IN  /\ window' = [window EXCEPT ![i].actual = actualTokens]
                  /\ accuracyHistory' = history
                  /\ safetyMultiplier' = AdaptSafetyMultiplier(safetyMultiplier, history)
  /\ UNCHANGED <<sys, applied, now, tpmLimit, rpmLimit, acquireChain, internal, admitted, swVars, jobVars>>

\* getMetrics: prunes the window
ArlGetMetrics ==
  /\ sys = "arl"
  /\ window' = PruneWindow(window, now)
  /\ window' # window
  /\ UNCHANGED <<sys, applied, chainVars, tpmLimit, rpmLimit, safetyMultiplier, accuracyHistory, swVars, jobVars>>

\* time passes while the event loop is idle
Tick ==
  /\ now + TickMs <= MaxNow
  /\ now' = now + TickMs
  /\ UNCHANGED <<sys, applied, acquireChain, internal, requests, admitted, arlVars, swVars, jobVars>>

(***************************************************************************)
(* SlidingWindow: pure parts.  A window object is [limit, requestLog].     *)
(***************************************************************************)
\* a prune that keeps the entry on the boundary of the window
PruneKeepsBoundary(log, t) == SelectSeq(log, LAMBDA e : e.timestamp >= t - windowMs)

\* prune(now): keep the entries with timestamp > now - windowMs
Prune(log, t) == SelectSeq(log, LAMBDA e : e.timestamp > t - windowMs)

\* getCurrentUsage
RECURSIVE GetCurrentUsage(_)
GetCurrentUsage(log) ==
  IF log = <<>> THEN 0 ELSE log[1].tokens + GetCurrentUsage(Tail(log))

\* the capacity check of acquireInternal, tryAcquire and getWaitTime
HasCapacityBeforeAdding(currentUsage, tokens, lim) == currentUsage <= lim
HasCapacity(currentUsage, tokens, lim) == currentUsage + tokens <= lim

\* tryAcquire(tokens) at time t: the result and the window it leaves
TryAcquire(sw, tokens, t) ==
  LET pruned == Prune(sw.requestLog, t)
  IN  IF HasCapacity(GetCurrentUsage(pruned), tokens, sw.limit)
      THEN [ok |-> TRUE,
            sw |-> [sw EXCEPT !.requestLog =
                      Append(pruned, [timestamp |-> t, tokens |-> tokens])]]
      ELSE [ok |-> FALSE, sw |-> [sw EXCEPT !.requestLog = pruned]]

\* getMetrics() at time t: prunes, then reads
GetMetrics(sw, t) ==
  LET pruned == Prune(sw.requestLog, t)
  IN  [used |-> GetCurrentUsage(pruned), limit |-> sw.limit,
       sw |-> [sw EXCEPT !.requestLog = pruned]]

\* getWaitTime: the loop that walks the log oldest to newest
RECURSIVE WaitUntilLoop(_, _, _)
WaitUntilLoop(log, i, tokensToFree) ==
  LET left == tokensToFree - log[i].tokens
      waitUntil == log[i].timestamp + windowMs
  IN  IF left <= 0 \/ i = Len(log) THEN waitUntil ELSE WaitUntilLoop(log, i + 1, left)

\* a getWaitTime that waits for the oldest entry only
GetWaitTimeOldest(sw, tokens, t) ==
  LET log == Prune(sw.requestLog, t)
  IN  IF HasCapacity(GetCurrentUsage(log), tokens, sw.limit) THEN 0
      ELSE IF log = <<>> THEN 100
      ELSE Max(0, log[1].timestamp + windowMs - t + 100)

\* getWaitTime(tokens) at time t, on a pruned log
GetWaitTime(sw, tokens, t) ==
  LET log == Prune(sw.requestLog, t)
      currentUsage == GetCurrentUsage(log)
  IN  IF HasCapacity(currentUsage, tokens, sw.limit) THEN 0
      ELSE LET waitUntil == IF log = <<>> THEN t
                            ELSE WaitUntilLoop(log, 1, currentUsage + tokens - sw.limit)
           IN  Max(0, waitUntil - t + 100)

\* one iteration of the while loop of SlidingWindow.acquireInternal, at time t
SwIterate(sw, tokens, t) ==
  LET r == TryAcquire(sw, tokens, t)
      log == r.sw.requestLog
  IN  IF r.ok THEN [ok |-> TRUE, sw |-> r.sw, wakeAt |-> 0]
      ELSE [ok |-> FALSE, sw |-> r.sw,
            wakeAt |-> IF log = <<>> THEN t + 1000
                       ELSE t + Max(log[1].timestamp + windowMs - t + 100, 100)]

\* the promise chain of SlidingWindow.acquire
RECURSIVE SwRunChain(_, _, _, _)
SwRunChain(chain, sw, adm, t) ==
  IF chain = <<>>
  THEN [acquireChain |-> <<>>, internal |-> NoCall, sw |-> sw, admitted |-> adm]
  ELSE LET call == Head(chain)
           it == SwIterate(sw, call.tokens, t)
       IN  IF it.ok
           THEN SwRunChain(Tail(chain), it.sw, Append(adm, <<call.requestId, t>>), t)
           ELSE [acquireChain |-> Tail(chain),
                 internal |-> [requestId |-> call.requestId, tokens |-> call.tokens,
                               wakeAt |-> it.wakeAt],
                 sw |-> it.sw, admitted |-> adm]

(***************************************************************************)
(* SlidingWindow: operations                                               *)
(***************************************************************************)
InitSw ==
  /\ sys = "sw"
  /\ applied = NotApplied
  /\ now = 0
  /\ \E c \in Configs : slidingWindow = [limit |-> ArlTpmLimit(c.tpm), requestLog |-> <<>>]
  /\ tpmWindow = NoWindow
  /\ rpmWindow = NoWindow
  /\ tpmLimit = 0
  /\ rpmLimit = 0
  /\ window = <<>>
  /\ safetyMultiplier = initialSafetyMultiplier
  /\ accuracyHistory = <<>>
  /\ acquireChain = <<>>
  /\ internal = NoCall
  /\ requests = [r \in RequestIds |-> [st |-> "new", est |-> 0]]
  /\ admitted = <<>>
  /\ NoJob

SwSetChain(res, reqs) ==
  /\ acquireChain' = res.acquireChain
  /\ internal' = res.internal
  /\ slidingWindow' = res.sw
  /\ admitted' = res.admitted
  /\ requests' = MarkAdmitted(reqs, res.admitted)

\* acquire(tokens)
SwAcquire(r, tokens) ==
  /\ sys = "sw"
  /\ IsNextCall(r)
  /\ LET reqs == [requests EXCEPT ![r] = [st |-> "called", est |-> tokens]]
         chain == Enqueue(acquireChain, [requestId |-> r, tokens |-> tokens])
     IN  IF internal # NoCall
         THEN /\ acquireChain' = chain
              /\ requests' = reqs
              /\ UNCHANGED <<internal, slidingWindow, admitted>>
         ELSE SwSetChain(SwRunChain(chain, slidingWindow, admitted, now), reqs)
  /\ UNCHANGED <<sys, applied, now, arlVars, tpmWindow, rpmWindow, jobVars>>

\* the sleep of acquireInternal ends and the loop runs again
SwWake ==
  /\ sys = "sw"
  /\ internal # NoCall
  /\ LET t == Max(now, internal.wakeAt)
         it == SwIterate(slidingWindow, internal.tokens, t)
     IN  /\ t <= MaxNow
         /\ now' = t
         /\ IF it.ok
            THEN SwSetChain(SwRunChain(acquireChain, it.sw,
                                       Append(admitted, <<internal.requestId, t>>), t),
                            requests)
            ELSE /\ internal' = [internal EXCEPT !.wakeAt = it.wakeAt]
                 /\ slidingWindow' = it.sw
                 /\ UNCHANGED <<acquireChain, admitted, requests>>
  /\ UNCHANGED <<sys, applied, arlVars, tpmWindow, rpmWindow, jobVars>>

\* tryAcquire(tokens)
SwTryAcquire(r, tokens) ==
  /\ sys = "sw"
  /\ IsNextCall(r)
  /\ LET res == TryAcquire(slidingWindow, tokens, now)
     IN  /\ slidingWindow' = res.sw
         /\ requests' = [requests EXCEPT
                           ![r] = [st |-> IF res.ok THEN "admitted" ELSE "refused",
                                   est |-> tokens]]
         /\ admitted' = IF res.ok THEN Append(admitted, <<r, now>>) ELSE admitted
  /\ UNCHANGED <<sys, applied, now, acquireChain, internal, arlVars, tpmWindow, rpmWindow, jobVars>>

(***************************************************************************)
(* RateLimiter over a TPM and an RPM SlidingWindow                         *)
(***************************************************************************)
\* DEFAULT_BUFFER_CONFIG
tpmBufferPercent == <<1, 10>>
rpmBufferCount == 1

\* getEffectiveLimits
GetEffectiveLimits(limits) ==
  [rpm |-> Max(limits.rpm - rpmBufferCount, 1),
   tpm |-> Floor(RatMul(<<limits.tpm, 1>>, RatSub(<<1, 1>>, tpmBufferPercent)))]

\* the two checks of RateLimiter.acquireInternal and RateLimiter.tryAcquire
RlRpmOkUnchecked(rpmMetrics) == TRUE
RlTpmOk(tpmMetrics, estimatedTokens) == tpmMetrics.used + estimatedTokens <= tpmMetrics.limit
RlRpmOk(rpmMetrics) == rpmMetrics.used + 1 <= rpmMetrics.limit

\* RateLimiter.tryAcquire(estimatedTokens) at time t
RlTryAcquire(tw, rw, estimatedTokens, t) ==
  LET tpmMetrics == GetMetrics(tw, t)
      rpmMetrics == GetMetrics(rw, t)
  IN  IF RlTpmOk(tpmMetrics, estimatedTokens) /\ RlRpmOk(rpmMetrics)
      THEN [ok |-> TRUE,
            tw |-> TryAcquire(tpmMetrics.sw, estimatedTokens, t).sw,
            rw |-> TryAcquire(rpmMetrics.sw, 1, t).sw]
      ELSE [ok |-> FALSE, tw |-> tpmMetrics.sw, rw |-> rpmMetrics.sw]

\* one iteration of the while loop of RateLimiter.acquireInternal, at time t
RlIterate(tw, rw, estimatedTokens, t) ==
  LET r == RlTryAcquire(tw, rw, estimatedTokens, t)
      tpmWait == IF RlTpmOk(GetMetrics(tw, t), estimatedTokens) THEN 0
                 ELSE GetWaitTime(r.tw, estimatedTokens, t)
      rpmWait == IF RlRpmOk(GetMetrics(rw, t)) THEN 0 ELSE GetWaitTime(r.rw, 1, t)
  IN  IF r.ok THEN [ok |-> TRUE, tw |-> r.tw, rw |-> r.rw, wakeAt |-> 0]
      ELSE [ok |-> FALSE, tw |-> r.tw, rw |-> r.rw,
            wakeAt |-> t + Max(Max(tpmWait, rpmWait), 100)]

\* the promise chain of RateLimiter.acquire
RECURSIVE RlRunChain(_, _, _, _, _)
RlRunChain(chain, tw, rw, adm, t) ==
  IF chain = <<>>
  THEN [acquireChain |-> <<>>, internal |-> NoCall, tw |-> tw, rw |-> rw, admitted |-> adm]
  ELSE LET call == Head(chain)
           it == RlIterate(tw, rw, call.tokens, t)
       IN  IF it.ok
           THEN RlRunChain(Tail(chain), it.tw, it.rw, Append(adm, <<call.requestId, t>>), t)
           ELSE [acquireChain |-> Tail(chain),
                 internal |-> [requestId |-> call.requestId, tokens |-> call.tokens,
                               wakeAt |-> it.wakeAt],
                 tw |-> it.tw, rw |-> it.rw, admitted |-> adm]

InitRl ==
  /\ sys = "rl"
  /\ applied = NotApplied
  /\ now = 0
  /\ \E c \in Configs :
       LET effectiveLimits == GetEffectiveLimits(c)
       IN  /\ tpmWindow = [limit |-> effectiveLimits.tpm, requestLog |-> <<>>]
           /\ rpmWindow = [limit |-> effectiveLimits.rpm, requestLog |-> <<>>]
  /\ slidingWindow = NoWindow
  /\ tpmLimit = 0
  /\ rpmLimit = 0
  /\ window = <<>>
  /\ safetyMultiplier = initialSafetyMultiplier
  /\ accuracyHistory = <<>>
  /\ acquireChain = <<>>
  /\ internal = NoCall
  /\ requests = [r \in RequestIds |-> [st |-> "new", est |-> 0]]
  /\ admitted = <<>>
  /\ NoJob

RlSetChain(res, reqs) ==
  /\ acquireChain' = res.acquireChain
  /\ internal' = res.internal
  /\ tpmWindow' = res.tw
  /\ rpmWindow' = res.rw
  /\ admitted' = res.admitted
  /\ requests' = MarkAdmitted(reqs, res.admitted)

\* RateLimiter.acquire(estimatedTokens)
RlAcquire(r, estimatedTokens) ==
  /\ sys = "rl"
  /\ IsNextCall(r)
  /\ LET reqs == [requests EXCEPT ![r] = [st |-> "called", est |-> estimatedTokens]]
         chain == Enqueue(acquireChain, [requestId |-> r, tokens |-> estimatedTokens])
     IN  IF internal # NoCall
         THEN /\ acquireChain' = chain
              /\ requests' = reqs
              /\ UNCHANGED <<internal, tpmWindow, rpmWindow, admitted>>
         ELSE RlSetChain(RlRunChain(chain, tpmWindow, rpmWindow, admitted, now), reqs)
  /\ UNCHANGED <<sys, applied, now, arlVars, slidingWindow, jobVars>>

\* the sleep of RateLimiter.acquireInternal ends and the loop runs again
RlWake ==
  /\ sys = "rl"
  /\ internal # NoCall
  /\ LET t == Max(now, internal.wakeAt)
         it == RlIterate(tpmWindow, rpmWindow, internal.tokens, t)
     IN  /\ t <= MaxNow
         /\ now' = t
         /\ IF it.ok
            THEN RlSetChain(RlRunChain(acquireChain, it.tw, it.rw,
                                       Append(admitted, <<internal.requestId, t>>), t),
                            requests)
            ELSE /\ internal' = [internal EXCEPT !.wakeAt = it.wakeAt]
                 /\ tpmWindow' = it.tw
                 /\ rpmWindow' = it.rw
                 /\ UNCHANGED <<acquireChain, admitted, requests>>
  /\ UNCHANGED <<sys, applied, arlVars, slidingWindow, jobVars>>

\* RateLimiter.tryAcquire(estimatedTokens)
RlTryAcquireCall(r, estimatedTokens) ==
  /\ sys = "rl"
  /\ IsNextCall(r)
  /\ LET res == RlTryAcquire(tpmWindow, rpmWindow, estimatedTokens, now)
     IN  /\ tpmWindow' = res.tw
         /\ rpmWindow' = res.rw
         /\ requests' = [requests EXCEPT
                           ![r] = [st |-> IF res.ok THEN "admitted" ELSE "refused",
                                   est |-> estimatedTokens]]
         /\ admitted' = IF res.ok THEN Append(admitted, <<r, now>>) ELSE admitted
  /\ UNCHANGED <<sys, applied, now, acquireChain, internal, arlVars, slidingWindow, jobVars>>

Init == InitArl \/ InitSw \/ InitRl

Next ==
  \/ \E r \in RequestIds, est \in EstSet : ArlAcquire(r, est)
  \/ ArlWake
  \/ \E r \in RequestIds : \E a \in ActualSet(requests[r].est) : ArlRecordActual(r, a)
  \/ ArlGetMetrics
  \/ \E r \in RequestIds, tokens \in EstSet : SwAcquire(r, tokens)
  \/ SwWake
  \/ \E r \in RequestIds, tokens \in EstSet : SwTryAcquire(r, tokens)
  \/ \E r \in RequestIds, est \in EstSet : RlAcquire(r, est)
  \/ RlWake
  \/ \E r \in RequestIds, est \in EstSet : RlTryAcquireCall(r, est)
  \/ Tick

Spec == Init /\ [][Next]_vars

(***************************************************************************)
(* Properties of the limiters                                              *)
(***************************************************************************)
\* token usage of the window at this instant: the entries younger than windowMs,
\* each counted with its actual cost if recorded, else with its inflated estimate
WindowTokens == TokensUsed(PruneWindow(window, now))

\* the number of admissions within the trailing windowMs
AdmittedInWindow == Cardinality({i \in 1..Len(admitted) : admitted[i][2] > now - windowMs})

\* this step admits at least one request
Admits == Len(admitted') > Len(admitted)

\* this step is a recordActual that stores an actual cost above the entry's estimate
RecordsAboveEstimate ==
  \E i \in 1..Len(window) :
    /\ i <= Len(window')
    /\ window'[i].requestId = window[i].requestId
    /\ window[i].actual = NULL
    /\ window'[i].actual # NULL
    /\ window'[i].actual > window[i].estimated

\* C1 as stated: the token usage of the AdaptiveRateLimiter window (actual cost if
\* recorded, else inflated estimate, entries younger than 60 s) never exceeds tpmLimit.
C1_UsageNeverExceedsLimit == sys = "arl" => WindowTokens <= tpmLimit

\* C1 amended: every admission leaves the token usage of the window at most
\* tpmLimit, and the usage grows only by an admission or by a recordActual whose actual
\* cost is larger than the inflated estimate of its entry (only the latter can take
\* the usage above tpmLimit).
C1_AdmissionWithinLimit ==
  [][sys = "arl" =>
       /\ Admits => WindowTokens' <= tpmLimit
       /\ WindowTokens' > WindowTokens => Admits \/ RecordsAboveEstimate]_vars

\* C1 witness: an actual above the estimate took the usage over tpmLimit while a
\* later acquire is held back
C1_Witness ==
  /\ sys = "arl"
  /\ WindowTokens > tpmLimit
  /\ internal # NoCall
  /\ Len(admitted) >= 1

\* C2: the costs of the SlidingWindow entries with timestamp > now - windowMs sum to
\* at most limit at every instant, under acquire, tryAcquire and the passage of time
\* (the two windows of a RateLimiter included).
C2_CapacityInvariant ==
  /\ sys = "sw" =>
       GetCurrentUsage(Prune(slidingWindow.requestLog, now)) <= slidingWindow.limit
  /\ sys = "rl" =>
       /\ GetCurrentUsage(Prune(tpmWindow.requestLog, now)) <= tpmWindow.limit
       /\ GetCurrentUsage(Prune(rpmWindow.requestLog, now)) <= rpmWindow.limit

\* C2 witness: the window holds entries, an acquire is asleep for lack of capacity
\* and a tryAcquire was refused
C2_Witness ==
  /\ sys = "sw"
  /\ internal # NoCall
  /\ \E r \in RequestIds : requests[r].st = "refused"
  /\ GetCurrentUsage(Prune(slidingWindow.requestLog, now)) + internal.tokens
       > slidingWindow.limit

\* C3: the number of requests AdaptiveRateLimiter admitted within the trailing 60 s
\* never exceeds rpmLimit.
C3_RequestsWithinLimit == sys = "arl" => AdmittedInWindow <= rpmLimit

\* C3 witness: rpmLimit requests were admitted within the window and the next acquire
\* waits although its tokens would fit
C3_Witness ==
  /\ sys = "arl"
  /\ AdmittedInWindow = rpmLimit
  /\ internal # NoCall
  /\ TpmOk(WindowTokens, internal.tokens)

PrefixOf(a, b) == Len(a) <= Len(b) /\ SubSeq(b, 1, Len(a)) = a

\* the requests admitted in this step, in order
NewlyAdmitted == SubSeq(admitted', Len(admitted) + 1, Len(admitted'))

\* AdaptiveRateLimiter: the entries of this step's admissions were appended to the
\* window as pruned at this instant, each one passing both checks on what precedes it
ArlGate ==
  LET pruned == PruneWindow(window, now')
      new == NewlyAdmitted
  IN  /\ PrefixOf(pruned, window')
      /\ Len(window') = Len(pruned) + Len(new)
      /\ \A j \in 1..Len(new) :
           LET i == Len(pruned) + j
           IN  /\ window'[i].requestId = new[j][1]
               /\ window'[i].timestamp = now'
               /\ TokensUsed(SubSeq(window', 1, i - 1)) + window'[i].estimated <= tpmLimit
               /\ (i - 1) + 1 <= rpmLimit

\* RateLimiter: every admission of this step put one entry into each window, each
\* one passing the check of its window on what precedes it
RlGate ==
  LET prunedT == Prune(tpmWindow.requestLog, now')
      prunedR == Prune(rpmWindow.requestLog, now')
      logT == tpmWindow'.requestLog
      logR == rpmWindow'.requestLog
      new == NewlyAdmitted
  IN  /\ PrefixOf(prunedT, logT) /\ PrefixOf(prunedR, logR)
      /\ Len(logT) = Len(prunedT) + Len(new)
      /\ Len(logR) = Len(prunedR) + Len(new)
      /\ \A j \in 1..Len(new) :
           LET iT == Len(prunedT) + j
               iR == Len(prunedR) + j
           IN  /\ logT[iT] = [timestamp |-> now', tokens |-> requests'[new[j][1]].est]
               /\ logR[iR] = [timestamp |-> now', tokens |-> 1]
               /\ GetCurrentUsage(SubSeq(logT, 1, iT)) <= tpmWindow.limit
               /\ GetCurrentUsage(SubSeq(logR, 1, iR)) <= rpmWindow.limit

\* C4 (dual gate): a request is admitted only if the token check and the request
\* check both passed on the same pruned window state, its entry being recorded in
\* that same step; nothing is recorded against one limit without the other, and
\* nothing is recorded without an admission.
C4_DualGate ==
  [][IF Admits
     THEN /\ sys = "arl" => ArlGate
          /\ sys = "rl" => RlGate
     ELSE /\ Len(window') <= Len(window)
          /\ Len(tpmWindow'.requestLog) <= Len(tpmWindow.requestLog)
          /\ Len(rpmWindow'.requestLog) <= Len(rpmWindow.requestLog)]_vars

\* C4 witness: a RateLimiter that admitted a request and holds back the next one,
\* one of its windows having room for it and the other not
C4_Witness ==
  /\ sys = "rl"
  /\ Len(admitted) >= 1
  /\ internal # NoCall
  /\ RlTpmOk(GetMetrics(tpmWindow, now), internal.tokens)
       # RlRpmOk(GetMetrics(rpmWindow, now))

HasReturned(r) == requests[r].st \in {"admitted", "recorded"}

\* C5: AdaptiveRateLimiter.acquire calls are admitted strictly in call order (request
\* ids are issued in call order): no call is admitted while an earlier call still
\* waits, at most one admission decision is in progress, and the calls behind it wait
\* in the chain.
C5_FifoAdmission ==
  sys = "arl" =>
    /\ \A r \in RequestIds : HasReturned(r) => \A q \in 1..(r - 1) : HasReturned(q)
    /\ \A i \in 1..Len(admitted) : \A j \in 1..Len(admitted) :
         i < j => admitted[i][1] < admitted[j][1]
    /\ internal = NoCall => acquireChain = <<>>
    /\ \A i \in 1..Len(acquireChain) :
         /\ internal.requestId < acquireChain[i].requestId
         /\ ~HasReturned(acquireChain[i].requestId)

\* C5 witness: the call in progress does not fit and sleeps, while a later call, whose
\* cost would fit now, waits behind it
C5_Witness ==
  /\ sys = "arl"
  /\ internal # NoCall
  /\ acquireChain # <<>>
  /\ LET pruned == PruneWindow(window, now)
         later == Head(acquireChain)
     IN  /\ ~TpmOk(TokensUsed(pruned), internal.tokens)
         /\ TpmOk(TokensUsed(pruned), SafeEstimate(later.tokens, safetyMultiplier))
         /\ RpmOk(RequestsUsed(pruned))


(***************************************************************************)
(* FailureTracker (the circuit breaker of a job)                           *)
(***************************************************************************)
\* number of recordFailure/recordSuccess calls explored on a tracker of its own
MaxFtCalls == 7

\* new FailureTracker(jobId)
NewFailureTracker == [consecutiveFailures |-> 0, totalFailures |-> 0]

\* recordSuccess: resets every counter (not what the code does)
RecordSuccessResetsAll(ft) == NewFailureTracker
\* recordSuccess
RecordSuccess(ft) == [ft EXCEPT !.consecutiveFailures = 0]

\* a recordFailure that counts nothing (not what the code does)
RecordFailureCountsNothing(ft) == ft

\* recordFailure: the counters after the call
RecordFailure(ft) ==
  [consecutiveFailures |-> ft.consecutiveFailures + 1,
   totalFailures |-> ft.totalFailures + 1]

\* recordFailure: its return value, from the counters it has just incremented
RecordFailureReturn(ft) ==
  IF ft.consecutiveFailures >= maxConsecutiveFailures THEN FALSE
  ELSE IF ft.totalFailures >= maxTotalFailures THEN FALSE
  ELSE TRUE

\* getFailureReason
GetFailureReason(ft) ==
  IF ft.consecutiveFailures >= maxConsecutiveFailures THEN "consecutive failures"
  ELSE IF ft.totalFailures >= maxTotalFailures THEN "total failures"
  ELSE "Unknown failure"

\* shouldAbort
ShouldAbort(ft) ==
  \/ ft.consecutiveFailures >= maxConsecutiveFailures
  \/ ft.totalFailures >= maxTotalFailures

InitFt ==
  /\ sys = "ft"
  /\ applied = NotApplied
  /\ now = 0
  /\ NoLimiter
  /\ NoJob

FtRecordFailure ==
  /\ sys = "ft"
  /\ Len(ftLog) < MaxFtCalls
  /\ failureTracker' = RecordFailure(failureTracker)
  /\ ftReturn' = RecordFailureReturn(failureTracker')
  /\ ftLog' = Append(ftLog, "F")
  /\ tripped' = (tripped \/ ShouldAbort(failureTracker'))
  /\ UNCHANGED <<sys, applied, chainVars, arlVars, swVars, job, chunks, tasks, orch, aborted,
                 chunkResults>>

FtRecordSuccess ==
  /\ sys = "ft"
  /\ Len(ftLog) < MaxFtCalls
  /\ failureTracker' = RecordSuccess(failureTracker)
  /\ ftLog' = Append(ftLog, "S")
  /\ UNCHANGED <<sys, applied, chainVars, arlVars, swVars, ftReturn, job, chunks, tasks, orch,
                 aborted, chunkResults, tripped>>

NextFt == FtRecordFailure \/ FtRecordSuccess

SpecFT == InitFt /\ [][NextFt]_vars

(***************************************************************************)
(* Properties of the failure tracker                                       *)
(***************************************************************************)
\* the number of recordFailure calls in a call history
RECURSIVE CountFailures(_)
CountFailures(log) ==
  IF log = <<>> THEN 0
  ELSE (IF log[1] = "F" THEN 1 ELSE 0) + CountFailures(Tail(log))

\* the number of recordFailure calls since the last recordSuccess
RECURSIVE TrailingFailures(_)
TrailingFailures(log) ==
  IF log = <<>> \/ log[Len(log)] = "S" THEN 0
  ELSE 1 + TrailingFailures(SubSeq(log, 1, Len(log) - 1))

\* C8: totalFailures counts every recordFailure call of the job and is never
\* decreased by recordSuccess, consecutiveFailures counts the failures since the
\* last recordSuccess (so it is 0 after each success and never above
\* totalFailures), and from the fifth recorded failure on the breaker is tripped
\* and recordFailure returns false, whatever the successes in between.
C8_TotalFailureBreaker ==
  sys = "ft" =>
    /\ failureTracker.totalFailures = CountFailures(ftLog)
    /\ failureTracker.consecutiveFailures = TrailingFailures(ftLog)
    /\ failureTracker.consecutiveFailures <= failureTracker.totalFailures
    /\ (CountFailures(ftLog) >= maxTotalFailures => ShouldAbort(failureTracker))
    /\ (CountFailures(ftLog) < maxTotalFailures
          /\ TrailingFailures(ftLog) < maxConsecutiveFailures => ~ShouldAbort(failureTracker))
    /\ (ftLog # <<>> /\ ftLog[Len(ftLog)] = "F"
          => (ftReturn = ~ShouldAbort(failureTracker)))

\* the fifth failure arrives with successes in between: never three in a row
C8_Witness ==
  /\ sys = "ft"
  /\ ftLog = <<"F", "F", "S", "F", "F", "S", "F">>
  /\ failureTracker.totalFailures = maxTotalFailures
  /\ failureTracker.consecutiveFailures = 1
  /\ ShouldAbort(failureTracker)
  /\ ftReturn = FALSE

(***************************************************************************)
(* processVideoInBackground: one job, its chunk tasks and its consolidation *)
(* step, all on one AdaptiveRateLimiter and one FailureTracker.            *)
(* One action is one turn of the event loop: the arrival of a remote       *)
(* response or the firing of a timer, with every promise continuation it   *)
(* triggers.                                                               *)
(***************************************************************************)
\* number of chunks of the job
NumChunks == 2

\* chunk c of the model is the chunk with id c - 1; task 0 is the consolidation step
ChunkIds == 1..NumChunks
Consolidation == 0
TaskIds == {Consolidation} \cup ChunkIds

\* getRateLimits(model, tier): gemini-2.5-flash on the free tier
JobConfigs == { [rpm |-> 10, tpm |-> 250000] }
\* token counts that countChunkTokens / countConsolidationTokens (or their fallbacks) give
JobEstSet == {90000}
\* usageMetadata.promptTokenCount of a response
JobActualSet == {100000}
\* randomInt(1000)
JitterSet == {0}
\* errors as executeWithRetry sees them: whether the message holds "retry in <n>s",
\* the seconds it names, and what the message says
NoDelayError == [hasDelay |-> FALSE, seconds |-> <<0, 1>>, message |-> "503 overloaded"]
\* the error the chunk task throws itself when analyzeChunk returned no events
EmptyResultError ==
  [hasDelay |-> FALSE, seconds |-> <<0, 1>>, message |-> "returned empty result"]
\* an error of no retryable class: the request itself is refused
InvalidKeyError ==
  [hasDelay |-> FALSE, seconds |-> <<0, 1>>, message |-> "API key not valid"]
\* let lastError: Error | undefined
NoError == [hasDelay |-> FALSE, seconds |-> <<0, 1>>, message |-> ""]
\* errors a remote call throws
JobErrors == {NoDelayError}

\* generateRequestId: a fresh id for each attempt of each task
RequestId(t, tries) == t * (maxTotalFailures + 1) + tries

RECURSIVE Pow(_, _)
Pow(b, n) == IF n = 0 THEN 1 ELSE b * Pow(b, n - 1)

\* an extractRetryDelay that finds no delay in any message (not what the code does)
ExtractRetryDelayNone(error) == 0
\* extractRetryDelay
ExtractRetryDelay(error) ==
  IF error.hasDelay /\ error.seconds[1] # 0
  THEN Ceil(RatMul(error.seconds, <<1000, 1>>))
  ELSE 0

\* calculateBackoff without the cap on the exponential delay (not what the code does)
CalculateBackoffUncapped(attempt, error, r) ==
  LET geminiDelay == ExtractRetryDelay(error)
      exponentialDelay == baseRetryDelayMs * Pow(backoffMultiplier, attempt)
      jitter == RatMul(RatMul(<<r, 1000>>, <<exponentialDelay, 1>>), <<1, 10>>)
  IN  IF geminiDelay > 0
      THEN <<Min(geminiDelay, maxRetryDelayMs), 1>>
      ELSE RatAdd(<<exponentialDelay, 1>>, jitter)
\* calculateBackoff(attempt, error), with r the value of randomInt(1000)
CalculateBackoff(attempt, error, r) ==
  LET geminiDelay == ExtractRetryDelay(error)
      exponentialDelay == baseRetryDelayMs * Pow(backoffMultiplier, attempt)
      jitter == RatMul(RatMul(<<r, 1000>>, <<exponentialDelay, 1>>), <<1, 10>>)
  IN  IF geminiDelay > 0
      THEN <<Min(geminiDelay, maxRetryDelayMs), 1>>
      ELSE RatMin(RatAdd(<<exponentialDelay, 1>>, jitter), <<maxRetryDelayMs, 1>>)

\* createJob: the job and its chunks as stored
CreateJob(config) ==
  [status |-> "pending", config |-> config, error |-> "", result |-> "",
   retriesCount |-> 0, totalTokensUsed |-> 0]
CreateChunk == [status |-> "pending", retryCount |-> 0, hasResult |-> FALSE]

\* updateJobStatus that forgets the consolidating status (not what the code does)
UpdateJobStatusSkipsConsolidating(jb, status) ==
  IF status = "consolidating" THEN jb ELSE [jb EXCEPT !.status = status]
\* updateJobStatus
UpdateJobStatus(jb, status) == [jb EXCEPT !.status = status]
\* setResult that only sets the status (not what the code does)
SetResultStatusOnly(jb, result) == UpdateJobStatus(jb, "completed")
\* setResult
SetResult(jb, result) == UpdateJobStatus([jb EXCEPT !.result = result], "completed")
\* setError
SetError(jb, error) == UpdateJobStatus([jb EXCEPT !.error = error], "failed")
\* addTokensUsed
AddTokensUsed(jb, tokens) == [jb EXCEPT !.totalTokensUsed = @ + tokens]

\* updateChunkStatus that drops the processing status (not what the code does)
UpdateChunkStatusDropsProcessing(chunk, status, hasResult) ==
  IF status = "processing" THEN chunk
  ELSE [status |-> status,
        retryCount |-> IF status = "retrying" THEN chunk.retryCount + 1
                       ELSE chunk.retryCount,
        hasResult |-> chunk.hasResult \/ hasResult]
\* updateChunkStatus: the chunk after the call
UpdateChunkStatus(chunk, status, hasResult) ==
  [status |-> status,
   retryCount |-> IF status = "retrying" THEN chunk.retryCount + 1 ELSE chunk.retryCount,
   hasResult |-> chunk.hasResult \/ hasResult]
\* updateChunkStatus: the job after the call
UpdateChunkStatusJob(jb, status) ==
  IF status = "retrying" THEN [jb EXCEPT !.retriesCount = @ + 1] ELSE jb

\* recordActual(requestId, actualTokens) on the limiter
RecordActual(w, history, mult, requestId, actualTokens) ==
  LET i == FindEntry(w, requestId)
  IN  IF i = 0
      THEN [window |-> w, accuracyHistory |-> history, safetyMultiplier |-> mult]
      ELSE LET h == PushAccuracy(history, Accuracy(actualTokens, w[i].estimated, mult))
           IN  [window |-> [w EXCEPT ![i].actual = actualTokens],
                accuracyHistory |-> h,
                safetyMultiplier |-> AdaptSafetyMultiplier(mult, h)]

\* the sleep of acquireInternal ends at t and the loop runs again
ArlOnWake(chain, cur, w, t, mult) ==
  LET it == ArlIterate(cur.requestId, cur.tokens, w, t)
  IN  IF it.ok
      THEN ArlRunChain(chain, it.window, << <<cur.requestId, t>> >>, t, mult)
      ELSE [acquireChain |-> chain, internal |-> [cur EXCEPT !.wakeAt = it.wakeAt],
            window |-> it.window, admitted |-> <<>>]

\* a task as processVideoInBackground creates it
NewTask(pc) ==
  [pc |-> pc, attempt |-> 0, tries |-> 0, requestId |-> 0, est |-> 0, wakeAt |-> 0,
   lastError |-> NoError]

\* the tasks PQueue counts as running
Running(tk) == tk.pc \in {"counting", "acquiring", "calling", "sleeping"}
\* the chunk tasks of the job: one per element of job.chunks
ChunkTasks(tks) == DOMAIN tks \ {Consolidation}
RunningCount(tks) == Cardinality({c \in ChunkTasks(tks) : Running(tks[c])})

\* executeWithRetry's loop condition that never looks at the breaker (not the code's)
LoopGuardAlways(ft) == TRUE
\* executeWithRetry's loop condition
LoopGuard(ft) == ~ShouldAbort(ft)

\* executeWithRetry at the head of its loop: the next attempt begins (a chunk
\* task generates its request id and calls countChunkTokens, the consolidation
\* task generates its id and calls acquire), or the loop ends and the call throws
ExecuteWithRetryLoop(tk, t, ft) ==
  IF LoopGuard(ft)
  THEN [tk EXCEPT !.pc = IF t = Consolidation THEN "acquiring" ELSE "counting",
                  !.tries = tk.tries + 1,
                  !.requestId = RequestId(t, tk.tries + 1)]
  ELSE [tk EXCEPT !.pc = "thrown"]

\* a catch block that takes the failed attempt's entry out of the limiter's
\* window (not what the code does)
WindowReleasedOnFailure(w, requestId) ==
  SelectSeq(w, LAMBDA e : e.requestId # requestId)
\* executeWithRetry's catch block: the limiter is not called, the entry of the
\* failed attempt stays as it is
WindowAfterFailure(w, requestId) == w

\* a catch block that gives up on an empty result (not what the code does)
ExecuteWithRetryCatchEmptyFinal(tk, ft, t, error, r) ==
  IF RecordFailureReturn(RecordFailure(ft)) /\ error # EmptyResultError
  THEN [tk EXCEPT !.lastError = error, !.attempt = tk.attempt + 1, !.pc = "sleeping",
                  !.wakeAt = t + Floor(CalculateBackoff(tk.attempt + 1, error, r))]
  ELSE [tk EXCEPT !.lastError = error, !.attempt = tk.attempt + 1, !.pc = "thrown"]

\* executeWithRetry's catch block at time t
ExecuteWithRetryCatch(tk, ft, t, error, r) ==
  IF RecordFailureReturn(RecordFailure(ft))
  THEN [tk EXCEPT !.lastError = error, !.attempt = tk.attempt + 1, !.pc = "sleeping",
                  !.wakeAt = t + Floor(CalculateBackoff(tk.attempt + 1, error, r))]
  ELSE [tk EXCEPT !.lastError = error, !.attempt = tk.attempt + 1, !.pc = "thrown"]

\* the function PQueue runs for a chunk, up to its first await
StartChunkTask(tk, c, ft, ab) ==
  IF ab \/ ShouldAbort(ft) THEN [tk EXCEPT !.pc = "thrown"]
  ELSE ExecuteWithRetryLoop(tk, c, ft)

\* PQueue: queued chunk tasks start, in order, while fewer than maxConcurrent run
RECURSIVE StartQueued(_, _, _, _)
StartQueued(c, tks, ft, ab) ==
  IF c \notin ChunkTasks(tks) THEN tks
  ELSE IF tks[c].pc = "queued" /\ RunningCount(tks) < maxConcurrent
       THEN StartQueued(c + 1, [tks EXCEPT ![c] = StartChunkTask(tks[c], c, ft, ab)], ft, ab)
       ELSE StartQueued(c + 1, tks, ft, ab)

\* a Promise.allSettled in the place of Promise.all (not what the code does)
PromiseAllSettled(tks) ==
  IF \E c \in ChunkTasks(tks) : tks[c].pc \notin {"returned", "thrown"} THEN "pending"
  ELSE "resolved"
\* Promise.all(chunkPromises)
PromiseAll(tks) ==
  IF \E c \in ChunkTasks(tks) : tks[c].pc = "thrown" THEN "rejected"
  ELSE IF \A c \in ChunkTasks(tks) : tks[c].pc = "returned" THEN "resolved"
  ELSE "pending"

\* processVideoInBackground after `await Promise.all`: its catch, the count
\* check and the move to consolidation
AfterChunks(o, tks, ft, jb, results, ab) ==
  LET settled == PromiseAll(tks)
  IN  IF o # "awaitChunks" \/ settled = "pending"
      THEN [orch |-> o, job |-> jb, aborted |-> ab]
      ELSE IF settled = "rejected"
      THEN [orch |-> "done",
            job |-> SetError(jb, IF ShouldAbort(ft) THEN GetFailureReason(ft)
                                 ELSE "task error"),
            aborted |-> (ab \/ ShouldAbort(ft))]
      ELSE IF Len(results) # Cardinality(ChunkTasks(tks))
      THEN [orch |-> "done", job |-> SetError(jb, "chunks missing"), aborted |-> ab]
      ELSE [orch |-> "countingConsolidation",
            job |-> UpdateJobStatus(jb, "consolidating"), aborted |-> ab]

\* every task in acquire goes on to its remote call, admitted or not (not what
\* the code does)
ResumeUnadmitted(tks, ids) ==
  [t \in DOMAIN tks |->
     IF tks[t].pc = "acquiring" THEN [tks[t] EXCEPT !.pc = "calling"] ELSE tks[t]]
\* a chunk is marked processing when its task calls acquire (not what the code does)
ResumeChunksAtCall(chs, tks, ids) ==
  [c \in DOMAIN chs |->
     IF tks[c].pc = "acquiring"
     THEN [chs[c] EXCEPT !.status = "processing"] ELSE chs[c]]
\* the tasks whose acquire has just returned go on: to analyzeChunk or consolidateChunks
Resume(tks, ids) ==
  [t \in DOMAIN tks |->
     IF tks[t].pc = "acquiring" /\ tks[t].requestId \in ids
     THEN [tks[t] EXCEPT !.pc = "calling"] ELSE tks[t]]
\* ... and a chunk is marked processing on the way
ResumeChunks(chs, tks, ids) ==
  [c \in DOMAIN chs |->
     IF tks[c].pc = "acquiring" /\ tks[c].requestId \in ids
     THEN UpdateChunkStatus(chs[c], "processing", FALSE) ELSE chs[c]]


\* rateLimiter.acquire(est, requestId) called by task t at time t0, with the
\* continuation of every task whose acquire returns in the same turn
RateLimiterAcquire(tks, chs, t, chain, cur, w, t0, mult) ==
  LET call == [requestId |-> tks[t].requestId, tokens |-> tks[t].est]
      res == ArlOnAcquire(Enqueue(chain, call), cur, w, <<>>, t0, mult)
      ids == Admitted(res.admitted)
  IN  [tasks |-> Resume(tks, ids), chunks |-> ResumeChunks(chs, tks, ids),
       acquireChain |-> res.acquireChain, internal |-> res.internal,
       window |-> res.window]

\* createProcessingJob has stored the job; processVideoInBackground has not run yet
InitJob ==
  /\ sys = "job"
  /\ applied = NotApplied
  /\ now = 0
  /\ NoLimiter
  /\ failureTracker = NewFailureTracker
  /\ ftLog = <<>>
  /\ ftReturn = TRUE
  /\ \E config \in JobConfigs : job = CreateJob(config)
  /\ chunks = [c \in ChunkIds |-> CreateChunk]
  /\ tasks = [t \in TaskIds |-> NewTask(IF t = Consolidation THEN "idle" ELSE "queued")]
  /\ orch = "created"
  /\ aborted = FALSE
  /\ chunkResults = <<>>
  /\ tripped = FALSE

\* processVideoInBackground up to `await Promise.all(chunkPromises)`
ProcessVideoInBackground ==
  /\ sys = "job"
  /\ orch = "created"
  /\ job' = UpdateJobStatus(job, "processing")
  /\ tpmLimit' = ArlTpmLimit(job.config.tpm)
  /\ rpmLimit' = ArlRpmLimit(job.config.rpm)
  /\ tasks' = StartQueued(1, tasks, failureTracker, aborted)
  /\ orch' = "awaitChunks"
  /\ UNCHANGED <<sys, applied, chainVars, window, safetyMultiplier, accuracyHistory, swVars, ftVars,
                 chunks, aborted, chunkResults, tripped>>

\* countChunkTokens returns (or throws and the formula is used): the chunk task
\* calls rateLimiter.acquire
CountChunkTokensReturns(c, est) ==
  /\ sys = "job"
  /\ tasks[c].pc = "counting"
  /\ LET tks == [tasks EXCEPT ![c].est = est, ![c].pc = "acquiring"]
         res == RateLimiterAcquire(tks, chunks, c, acquireChain, internal, window, now,
                                   safetyMultiplier)
     IN  /\ tasks' = res.tasks
         /\ chunks' = res.chunks
         /\ acquireChain' = res.acquireChain
         /\ internal' = res.internal
         /\ window' = res.window
  /\ UNCHANGED <<sys, applied, now, requests, admitted, tpmLimit, rpmLimit, safetyMultiplier,
                 accuracyHistory, swVars, ftVars, job, orch, aborted, chunkResults, tripped>>

\* the sleep of acquireInternal ends (at its due time or later)
AcquireWake ==
  /\ sys = "job"
  /\ internal # NoCall
  /\ LET t == Max(now, internal.wakeAt)
         res == ArlOnWake(acquireChain, internal, window, t, safetyMultiplier)
         ids == Admitted(res.admitted)
     IN  /\ t <= MaxNow
         /\ now' = t
         /\ tasks' = Resume(tasks, ids)
         /\ chunks' = ResumeChunks(chunks, tasks, ids)
         /\ acquireChain' = res.acquireChain
         /\ internal' = res.internal
         /\ window' = res.window
  /\ UNCHANGED <<sys, applied, requests, admitted, tpmLimit, rpmLimit, safetyMultiplier,
                 accuracyHistory, swVars, ftVars, job, orch, aborted, chunkResults, tripped>>

\* analyzeChunk returns events ("ok"), returns no events ("empty") or throws
\* ("throw"): the rest of the attempt, executeWithRetry's reaction and, if the
\* chunk task settles, the queue's and processVideoInBackground's reaction
AnalyzeChunkReturns(c, kind, actualTokens, error, r) ==
  /\ sys = "job"
  /\ c \in DOMAIN chunks
  /\ tasks[c].pc = "calling"
  /\ LET ra == IF kind = "throw"
               THEN [window |-> window, accuracyHistory |-> accuracyHistory,
                     safetyMultiplier |-> safetyMultiplier]
               ELSE RecordActual(window, accuracyHistory, safetyMultiplier,
                                 tasks[c].requestId, actualTokens)
         w == IF kind = "ok" THEN ra.window
              ELSE WindowAfterFailure(ra.window, tasks[c].requestId)
         ft == IF kind = "ok" THEN RecordSuccess(failureTracker)
               ELSE RecordFailure(failureTracker)
         tk == IF kind = "ok" THEN [tasks[c] EXCEPT !.pc = "returned"]
               ELSE ExecuteWithRetryCatch(tasks[c], failureTracker, now,
                                          IF kind = "empty" THEN EmptyResultError
                                          ELSE error, r)
         status == IF kind = "ok" THEN "completed"
                   ELSE IF tk.pc = "sleeping" THEN "retrying"
                   ELSE chunks[c].status
         jb == IF kind = "ok" THEN AddTokensUsed(job, actualTokens)
               ELSE IF tk.pc = "sleeping" THEN UpdateChunkStatusJob(job, "retrying")
               ELSE job
         results == IF kind = "ok" THEN Append(chunkResults, c) ELSE chunkResults
         tks == StartQueued(1, [tasks EXCEPT ![c] = tk], ft, aborted)
         after == AfterChunks(orch, tks, ft, jb, results, aborted)
     IN  /\ window' = w
         /\ accuracyHistory' = ra.accuracyHistory
         /\ safetyMultiplier' = ra.safetyMultiplier
         /\ failureTracker' = ft
         /\ tripped' = (tripped \/ ShouldAbort(ft))
         /\ chunks' = IF status = chunks[c].status /\ kind # "ok" THEN chunks
                      ELSE [chunks EXCEPT ![c] = UpdateChunkStatus(@, status, kind = "ok")]
         /\ chunkResults' = results
         /\ tasks' = tks
         /\ job' = after.job
         /\ orch' = after.orch
         /\ aborted' = after.aborted
  /\ UNCHANGED <<sys, applied, chainVars, tpmLimit, rpmLimit, swVars, ftLog, ftReturn>>

\* the backoff sleep of a chunk's executeWithRetry ends: the loop condition is
\* evaluated and the next attempt begins, or the call throws
ChunkBackoffWake(c) ==
  /\ sys = "job"
  /\ c \in DOMAIN chunks
  /\ tasks[c].pc = "sleeping"
  /\ LET t == Max(now, tasks[c].wakeAt)
         tk == ExecuteWithRetryLoop(tasks[c], c, failureTracker)
         tks == StartQueued(1, [tasks EXCEPT ![c] = tk], failureTracker, aborted)
         after == AfterChunks(orch, tks, failureTracker, job, chunkResults, aborted)
     IN  /\ t <= MaxNow
         /\ now' = t
         /\ tasks' = tks
         /\ job' = after.job
         /\ orch' = after.orch
         /\ aborted' = after.aborted
  /\ UNCHANGED <<sys, applied, acquireChain, internal, requests, admitted, arlVars, swVars, ftVars,
                 chunks, chunkResults, tripped>>

\* countConsolidationTokens returns (or throws and the length estimate is used):
\* executeWithRetry('Consolidation') begins
CountConsolidationTokensReturns(est) ==
  /\ sys = "job"
  /\ orch = "countingConsolidation"
  /\ LET tk == ExecuteWithRetryLoop([tasks[Consolidation] EXCEPT !.est = est],
                                    Consolidation, failureTracker)
         tks == [tasks EXCEPT ![Consolidation] = tk]
         res == RateLimiterAcquire(tks, chunks, Consolidation, acquireChain, internal,
                                   window, now, safetyMultiplier)
     IN  IF tk.pc = "thrown"
         THEN /\ tasks' = tks
              /\ job' = SetError(job, "Consolidation failed")
              /\ orch' = "done"
              /\ UNCHANGED <<acquireChain, internal, window>>
         ELSE /\ tasks' = res.tasks
              /\ acquireChain' = res.acquireChain
              /\ internal' = res.internal
              /\ window' = res.window
              /\ orch' = "consolidation"
              /\ UNCHANGED job
  /\ UNCHANGED <<sys, applied, now, requests, admitted, tpmLimit, rpmLimit, safetyMultiplier,
                 accuracyHistory, swVars, ftVars, chunks, aborted, chunkResults, tripped>>

\* consolidateChunks returns ("ok") or throws ("throw")
ConsolidateChunksReturns(kind, actualTokens, error, r) ==
  /\ sys = "job"
  /\ tasks[Consolidation].pc = "calling"
  /\ LET ra == IF kind = "throw"
               THEN [window |-> window, accuracyHistory |-> accuracyHistory,
                     safetyMultiplier |-> safetyMultiplier]
               ELSE RecordActual(window, accuracyHistory, safetyMultiplier,
                                 tasks[Consolidation].requestId, actualTokens)
         w == IF kind = "ok" THEN ra.window
              ELSE WindowAfterFailure(ra.window, tasks[Consolidation].requestId)
         ft == IF kind = "ok" THEN RecordSuccess(failureTracker)
               ELSE RecordFailure(failureTracker)
         tk == IF kind = "ok" THEN [tasks[Consolidation] EXCEPT !.pc = "returned"]
               ELSE ExecuteWithRetryCatch(tasks[Consolidation], failureTracker, now,
                                          error, r)
     IN  /\ window' = w
         /\ accuracyHistory' = ra.accuracyHistory
         /\ safetyMultiplier' = ra.safetyMultiplier
         /\ failureTracker' = ft
         /\ tripped' = (tripped \/ ShouldAbort(ft))
         /\ tasks' = [tasks EXCEPT ![Consolidation] = tk]
         /\ job' = IF tk.pc = "returned" THEN SetResult(job, "timestamps")
                   ELSE IF tk.pc = "thrown" THEN SetError(job, tk.lastError.message)
                   ELSE job
         /\ orch' = IF tk.pc = "sleeping" THEN orch ELSE "done"
  /\ UNCHANGED <<sys, applied, chainVars, tpmLimit, rpmLimit, swVars, ftLog, ftReturn, chunks,
                 aborted, chunkResults>>

\* the backoff sleep of the consolidation's executeWithRetry ends
ConsolidationBackoffWake ==
  /\ sys = "job"
  /\ tasks[Consolidation].pc = "sleeping"
  /\ LET t == Max(now, tasks[Consolidation].wakeAt)
         tk == ExecuteWithRetryLoop(tasks[Consolidation], Consolidation, failureTracker)
         tks == [tasks EXCEPT ![Consolidation] = tk]
         res == RateLimiterAcquire(tks, chunks, Consolidation, acquireChain, internal,
                                   window, t, safetyMultiplier)
     IN  /\ t <= MaxNow
         /\ now' = t
         /\ IF tk.pc = "thrown"
            THEN /\ tasks' = tks
                 /\ job' = SetError(job, tk.lastError.message)
                 /\ orch' = "done"
                 /\ UNCHANGED <<acquireChain, internal, window>>
            ELSE /\ tasks' = res.tasks
                 /\ acquireChain' = res.acquireChain
                 /\ internal' = res.internal
                 /\ window' = res.window
                 /\ UNCHANGED <<job, orch>>
  /\ UNCHANGED <<sys, applied, requests, admitted, tpmLimit, rpmLimit, safetyMultiplier,
                 accuracyHistory, swVars, ftVars, chunks, aborted, chunkResults, tripped>>

\* the idle clock steps of a job are taken before MaxIdleStart
MaxIdleStart == 60000
JobTick == now < MaxIdleStart /\ Tick

NextJob ==
  \/ ProcessVideoInBackground
  \/ \E c \in ChunkIds, est \in JobEstSet : CountChunkTokensReturns(c, est)
  \/ AcquireWake
  \/ \E c \in ChunkIds, kind \in {"ok", "empty", "throw"}, a \in JobActualSet,
        error \in JobErrors, r \in JitterSet : AnalyzeChunkReturns(c, kind, a, error, r)
  \/ \E c \in ChunkIds : ChunkBackoffWake(c)
  \/ \E est \in JobEstSet : CountConsolidationTokensReturns(est)
  \/ \E kind \in {"ok", "throw"}, a \in JobActualSet, error \in JobErrors, r \in JitterSet :
        ConsolidateChunksReturns(kind, a, error, r)
  \/ ConsolidationBackoffWake
  \/ JobTick

SpecJob == InitJob /\ [][NextJob]_vars

(***************************************************************************)
(* Properties of the job pipeline                                          *)
(***************************************************************************)
\* task t goes on to its remote call in this step
InvokesRemote(t) == tasks[t].pc # "calling" /\ tasks'[t].pc = "calling"

AttemptStarts(t) == tasks'[t].tries = tasks[t].tries + 1
\* the attempt of task t fails in this step
AttemptFails(t) == tasks'[t].attempt = tasks[t].attempt + 1

\* C7: when the third failure in a row is recorded the breaker is tripped and the
\* task that failed is not attempted again (its executeWithRetry throws); no
\* executeWithRetry loop begins an attempt while shouldAbort() is true, and a task
\* that wakes from its backoff sleep while it is true throws without running again.
C7_ConsecutiveFailureBreaker ==
  [][/\ ((\E t \in TaskIds : AttemptFails(t))
            /\ failureTracker.consecutiveFailures = maxConsecutiveFailures - 1
           => ShouldAbort(failureTracker') /\ tripped')
     /\ \A t \in TaskIds :
          /\ AttemptStarts(t) => ~ShouldAbort(failureTracker')
          /\ (AttemptFails(t)
                /\ failureTracker'.consecutiveFailures >= maxConsecutiveFailures)
               => (tasks'[t].pc = "thrown" /\ tasks'[t].tries = tasks[t].tries)
          /\ (tasks[t].pc = "sleeping" /\ tasks'[t].pc # "sleeping"
                /\ ShouldAbort(failureTracker))
               => (tasks'[t].pc = "thrown" /\ tasks'[t].tries = tasks[t].tries)]_vars

\* three failures in a row, by two chunks: the one that failed last has thrown,
\* and so has the other, which was in its backoff sleep and woke up
C7_Witness ==
  /\ sys = "job"
  /\ failureTracker.consecutiveFailures = maxConsecutiveFailures
  /\ failureTracker.totalFailures = maxConsecutiveFailures
  /\ \E t, u \in ChunkIds :
       /\ t # u
       /\ tasks[t].pc = "thrown" /\ tasks[t].attempt = 2 /\ tasks[t].tries = 2
       /\ tasks[u].pc = "thrown" /\ tasks[u].attempt = 1 /\ tasks[u].tries = 1

\* C9: once the breaker has tripped, in chunk processing or in consolidation, the
\* job is failed (at once, and for good); a completed job has never tripped and
\* has the result of every chunk; a job that ended with fewer chunk results than
\* chunks, or with a chunk task that threw, is failed.
C9_TrippedJobFails ==
  sys = "job" =>
    /\ (tripped => job.status = "failed")
    /\ (job.status = "completed" => Len(chunkResults) = NumChunks)
    /\ ((\E c \in ChunkIds : tasks[c].pc = "thrown") => job.status = "failed")
    /\ (orch = "done" /\ Len(chunkResults) < NumChunks => job.status = "failed")

\* the breaker tripped in chunk processing; a chunk that was in flight succeeded
\* afterwards and reset the consecutive counter: the job stays failed
C9_Witness ==
  /\ sys = "job"
  /\ tripped
  /\ ~ShouldAbort(failureTracker)
  /\ job.status = "failed"
  /\ \E c \in ChunkIds : tasks[c].pc = "thrown"
  /\ \E c \in ChunkIds : chunks[c].status = "completed"

\* the status changes of a job that the pipeline allows
JobTransitions ==
  { <<"pending", "processing">>, <<"processing", "consolidating">>,
    <<"consolidating", "completed">>, <<"processing", "failed">>,
    <<"consolidating", "failed">> }

\* C10: every change of the job status is one of pending -> processing ->
\* consolidating -> completed, processing -> failed, consolidating -> failed; so
\* completed and failed are never left and no job reaches both.
C10_JobStatusMachine ==
  [][job'.status # job.status => <<job.status, job'.status>> \in JobTransitions]_vars

\* a job that completed after failures and retries
C10_Witness ==
  /\ sys = "job"
  /\ job.status = "completed"
  /\ job.retriesCount > 0
  /\ tasks[Consolidation].attempt > 0

\* the status changes of a chunk that the chunk state machine allows
ChunkTransitions ==
  { <<"pending", "processing">>, <<"processing", "completed">>,
    <<"processing", "retrying">>, <<"retrying", "processing">>,
    <<"processing", "error">>, <<"retrying", "error">> }

\* C11: every change of a chunk's status is one of pending -> processing,
\* processing -> completed, processing -> retrying, retrying -> processing,
\* processing -> error, retrying -> error; so pending never goes directly to
\* retrying, completed or error, and a completed chunk keeps its status.
C11_ChunkStatusMachine ==
  [][\A c \in ChunkIds :
       chunks'[c].status # chunks[c].status
         => <<chunks[c].status, chunks'[c].status>> \in ChunkTransitions]_vars

\* a chunk that went pending -> processing -> retrying -> processing -> completed
C11_Witness ==
  /\ sys = "job"
  /\ \E c \in ChunkIds :
       /\ chunks[c].status = "completed"
       /\ chunks[c].retryCount > 0
       /\ tasks[c].tries = chunks[c].retryCount + 1

\* C12 (as stated): when the job has a terminal status, every chunk that was
\* started has status completed or error, and a chunk whose task stopped without
\* success has status error.
C12_TerminalChunks ==
  (sys = "job" /\ job.status \in {"completed", "failed"}) =>
    \A c \in ChunkIds :
      /\ tasks[c].tries > 0 => chunks[c].status \in {"completed", "error"}
      /\ tasks[c].pc = "thrown" => chunks[c].status = "error"

\* the positions of a chunk task in which its attempt has not been admitted
NotAdmitted == {"queued", "counting", "acquiring", "sleeping"}

\* C13: a chunk's status becomes processing only in the step in which the
\* rateLimiter.acquire of its current attempt returns (the window then holds the
\* entry of that attempt), and a chunk whose task is queued, counting tokens,
\* waiting in acquire or in a backoff sleep is not shown as processing.
C13_ProcessingAfterAdmission ==
  [][\A c \in ChunkIds :
       /\ (chunks'[c].status = "processing" /\ chunks[c].status # "processing")
            => /\ tasks'[c].pc = "calling"
               /\ tasks[c].pc \in {"counting", "acquiring"}
               /\ FindEntry(window', tasks'[c].requestId) # 0
               /\ FindEntry(window, tasks'[c].requestId) = 0
       /\ tasks'[c].pc \in NotAdmitted => chunks'[c].status # "processing"]_vars

\* one chunk is being analysed while the retry of another waits for admission
C13_Witness ==
  /\ sys = "job"
  /\ \E c, d \in ChunkIds :
       /\ tasks[c].pc = "acquiring" /\ tasks[c].tries = 2
       /\ chunks[c].status = "retrying"
       /\ internal.requestId = tasks[c].requestId
       /\ tasks[d].pc = "calling" /\ chunks[d].status = "processing"

\* C14: a task goes on to its remote call (analyzeChunk, consolidateChunks) only
\* in the step in which the acquire of that very attempt returns: the window gets
\* a new entry, stamped now, under the request id generated for the attempt.
C14_RemoteCallAfterOwnAcquire ==
  [][\A t \in TaskIds :
       InvokesRemote(t) =>
         /\ tasks'[t].requestId = RequestId(t, tasks'[t].tries)
         /\ FindEntry(window, tasks'[t].requestId) = 0
         /\ FindEntry(window', tasks'[t].requestId) # 0
         /\ window'[FindEntry(window', tasks'[t].requestId)].timestamp = now']_vars

\* the second attempt of the consolidation step is calling consolidateChunks:
\* the window holds the entry of the first attempt and the entry of the second
C14_Witness ==
  /\ sys = "job"
  /\ tasks[Consolidation].pc = "calling"
  /\ tasks[Consolidation].tries = 2
  /\ FindEntry(window, RequestId(Consolidation, 1)) # 0
  /\ FindEntry(window, RequestId(Consolidation, 2)) # 0

(***************************************************************************)
(* Acquires that can never fit: a SlidingWindow or an AdaptiveRateLimiter  *)
(* that is asked for more than its limit.                                  *)
(***************************************************************************)
\* costs asked of the limiters: one that fits every limit of Configs, and one
\* above the smaller limit (and, inflated, above both adaptive limits)
OversizeEstSet == {40, 100}

NextOversize ==
  \/ \E r \in RequestIds, est \in OversizeEstSet : ArlAcquire(r, est)
  \/ ArlWake
  \/ \E r \in RequestIds, tokens \in OversizeEstSet : SwAcquire(r, tokens)
  \/ SwWake
  \/ Tick

SpecOversize == (InitArl \/ InitSw) /\ [][NextOversize]_vars

\* the cost of request r can never fit: it is above the limit even in an empty window
NeverFits(r) ==
  \/ sys = "sw" /\ requests[r].est > slidingWindow.limit
  \/ sys = "arl" /\ SafeEstimate(requests[r].est, initialSafetyMultiplier) > tpmLimit

\* C15 (as stated): an acquire whose cost can never fit has ended (with a
\* configuration error): it is not left waiting, on the chain or on a timer.
C15_OversizeAcquireEnds ==
  \A r \in DOMAIN requests : NeverFits(r) => requests[r].st # "called"

\* an acquire whose cost can never fit is never admitted
OversizeNeverAdmitted ==
  \A r \in DOMAIN requests : NeverFits(r) => requests[r].st \in {"new", "called"}

\* an acquire that can never fit is still waiting when the clock of the model stops
OversizeStillWaiting ==
  /\ now >= MaxNow - TickMs
  /\ \E r \in DOMAIN requests :
       NeverFits(r) /\ requests[r].st = "called" /\ internal.requestId = r


(***************************************************************************)
(* AdaptiveRateLimiter: enough recorded requests for adaptSafetyMultiplier *)
(* to act, estimates and actual costs of zero included                     *)
(***************************************************************************)
MaxAdaptReq == 5
AdaptIds == 1..MaxAdaptReq
\* limits under which none of the requests has to wait
AdaptConfig == [tpm |-> 1000, rpm |-> 10]
AdaptEstSet == {0, 100}
AdaptActualSet == {0, 120}
\* config.initialSafetyMultiplier: the default and 1.0
AdaptInitialMultipliers == {initialSafetyMultiplier, <<1, 1>>}
\* reset: this.safetyMultiplier = 1.2
ResetSafetyMultiplier == <<6, 5>>

InitAdapt ==
  /\ sys = "arl"
  /\ applied = NotApplied
  /\ now = 0
  /\ tpmLimit = ArlTpmLimit(AdaptConfig.tpm)
  /\ rpmLimit = ArlRpmLimit(AdaptConfig.rpm)
  /\ window = <<>>
  /\ acquireChain = <<>>
  /\ internal = NoCall
  /\ safetyMultiplier \in AdaptInitialMultipliers
  /\ accuracyHistory = <<>>
  /\ requests = [r \in AdaptIds |-> [st |-> "new", est |-> 0]]
  /\ admitted = <<>>
  /\ NoJob
  /\ slidingWindow = NoWindow
  /\ tpmWindow = NoWindow
  /\ rpmWindow = NoWindow

\* reset()
ArlReset ==
  /\ sys = "arl"
  /\ window' = <<>>
  /\ accuracyHistory' = <<>>
  /\ safetyMultiplier' = ResetSafetyMultiplier
  /\ UNCHANGED <<sys, applied, chainVars, tpmLimit, rpmLimit, swVars, jobVars>>

NextAdapt ==
  \/ \E r \in AdaptIds, est \in AdaptEstSet : ArlAcquire(r, est)
  \/ \E r \in AdaptIds, actualTokens \in AdaptActualSet : ArlRecordActual(r, actualTokens)
  \/ ArlReset

SpecAdapt == InitAdapt /\ [][NextAdapt]_vars

\* min <= x <= max as the source's numbers compare: false for NaN
WithinBounds(x) ==
  /\ ~IsNaN(x)
  /\ RatLeq(minSafetyMultiplier, x)
  /\ RatLeq(x, maxSafetyMultiplier)

\* C16: in every reachable state of the adaptive limiter the safety multiplier
\* lies between the configured minimum and maximum, whatever was acquired,
\* recorded (zero included) or reset.
C16_MultiplierWithinBounds == sys = "arl" => WithinBounds(safetyMultiplier)

\* the multiplier stays within its bounds as long as no accuracy ratio is NaN
C16_BoundedUnlessNaN ==
  (sys = "arl" /\ \A i \in 1..Len(accuracyHistory) : ~IsNaN(accuracyHistory[i]))
    => WithinBounds(safetyMultiplier)

\* the multiplier the update rule gives: 20% of the way from mult to
\* 1.1 x the largest ratio of the history, clamped to the configured bounds
MovedTowardTarget(mult, history) ==
  LET target == RatMul(RatMaxOf(history), <<11, 10>>)
      moved == RatAdd(mult, RatMul(RatSub(target, mult), <<1, 5>>))
  IN  RatMax(minSafetyMultiplier, RatMin(maxSafetyMultiplier, moved))

\* a recordActual that found its entry: it pushed a ratio on the history
RecordedRatio == accuracyHistory' # accuracyHistory /\ accuracyHistory' # <<>>

FiniteRatios(history) ==
  \A i \in 1..Len(history) : ~IsNaN(history[i]) /\ history[i] # Infinity

\* C17: every recordActual that finds its entry recomputes the multiplier: it
\* moves 20% of the way to 1.1 x the largest accuracy ratio of the history,
\* clamped (from 1.0, actual 120 for estimate 100: 20% of the way to 1.32).
C17_EveryRecordAdapts ==
  [][(sys = "arl" /\ RecordedRatio /\ FiniteRatios(accuracyHistory')
      /\ ~IsNaN(safetyMultiplier))
       => safetyMultiplier' = MovedTowardTarget(safetyMultiplier, accuracyHistory')]_vars

\* the rule is followed once the history holds five ratios
C17_AdaptsWithFiveRatios ==
  [][(sys = "arl" /\ RecordedRatio /\ FiniteRatios(accuracyHistory')
      /\ ~IsNaN(safetyMultiplier) /\ Len(accuracyHistory') >= 5)
       => safetyMultiplier' = MovedTowardTarget(safetyMultiplier, accuracyHistory')]_vars

\* with fewer than five ratios a recording leaves the multiplier alone
C17_NoChangeBeforeFiveRatios ==
  [][(sys = "arl" /\ RecordedRatio /\ Len(accuracyHistory') < 5)
       => safetyMultiplier' = safetyMultiplier]_vars

(***************************************************************************)
(* AdaptiveRateLimiter: what an entry contributes to the usage             *)
(***************************************************************************)
\* the usage the window should show: the recorded cost of every entry that has
\* one, the inflated estimate of the others
RECURSIVE ExpectedUsage(_)
ExpectedUsage(w) ==
  IF w = <<>> THEN 0
  ELSE (IF w[1].actual = NULL THEN w[1].estimated ELSE w[1].actual)
       + ExpectedUsage(Tail(w))

RECURSIVE SumEstimated(_)
SumEstimated(w) == IF w = <<>> THEN 0 ELSE w[1].estimated + SumEstimated(Tail(w))

\* C18: after recordActual(id, a) the entry contributes exactly a to the usage
\* that admission and getMetrics read, also for a = 0 and for a above the
\* estimate; an entry without a recorded cost contributes its inflated estimate.
C18_RecordedActualCounts ==
  [][sys = "arl" =>
       /\ TokensUsed(window') = ExpectedUsage(window')
       /\ \A r \in DOMAIN requests :
            (requests[r].st = "admitted" /\ requests'[r].st = "recorded"
             /\ FindEntry(window, r) # 0)
              => LET i == FindEntry(window, r)
                     a == window'[i].actual
                 IN  /\ a \in ActualSet(requests[r].est)
                     /\ TokensUsed(window')
                          = TokensUsed(window) - window[i].estimated + a
       /\ \A i \in 1..Len(admitted') :
            i > Len(admitted) =>
              ExpectedUsage(PruneWindow(window', admitted'[i][2])) <= tpmLimit]_vars

\* an entry recorded at 0, another recorded above its estimate, and a window
\* whose estimates together exceed the limit: the last admission relied on a
\* recorded cost
C18_Witness ==
  /\ sys = "arl"
  /\ \E i \in 1..Len(window) : window[i].actual = 0 /\ window[i].estimated > 0
  /\ \E j \in 1..Len(window) : window[j].actual # NULL /\ window[j].actual > window[j].estimated
  /\ SumEstimated(window) > tpmLimit

(***************************************************************************)
(* Job pipeline: the limiter's entries of failed attempts                  *)
(***************************************************************************)
\* the entry of request id in window w, as a set (empty when there is none)
EntriesOf(w, id) == {w[i] : i \in {j \in 1..Len(w) : w[j].requestId = id}}

\* C19: a failed attempt gives no capacity back: its entry stays in the window
\* and counts (one request, its tokens) until it is pruned by age (60 s), and
\* the admission of every retry adds a new entry beside it.
C19_FailedAttemptKeepsEntry ==
  [][sys = "job" =>
       \* entries leave the window by age only
       /\ \A i \in 1..Len(window) :
            window[i].timestamp > now' - windowMs
              => \E j \in 1..Len(window') :
                   /\ window'[j].requestId = window[i].requestId
                   /\ window'[j].timestamp = window[i].timestamp
                   /\ window'[j].estimated = window[i].estimated
                   /\ EntryTokens(window'[j]) > 0
       \* a failing attempt does not lower the number of requests counted
       /\ \A t \in TaskIds :
            AttemptFails(t) =>
              /\ RequestsUsed(window') = RequestsUsed(window)
              /\ EntriesOf(window, tasks[t].requestId) # {}
                   => EntriesOf(window', tasks[t].requestId) # {}
       \* the attempt that goes on to its remote call has an entry of its own
       /\ \A t \in TaskIds :
            InvokesRemote(t) =>
              /\ EntriesOf(window, tasks'[t].requestId) = {}
              /\ Cardinality(EntriesOf(window', tasks'[t].requestId)) = 1]_vars

\* a retry was admitted while the entry of the failed attempt before it is still
\* in the window, and both count
C19_Witness ==
  /\ sys = "job"
  /\ \E t \in TaskIds :
       /\ tasks[t].pc = "calling"
       /\ tasks[t].attempt >= 1
       /\ EntriesOf(window, tasks[t].requestId) # {}
       /\ \E k \in 1..(tasks[t].tries - 1) : EntriesOf(window, RequestId(t, k)) # {}

(***************************************************************************)
(* Job pipeline: remote calls that fail with an error of no retryable class *)
(***************************************************************************)
RefusedErrors == {InvalidKeyError}

NextJobRefused ==
  \/ ProcessVideoInBackground
  \/ \E c \in ChunkIds, est \in JobEstSet : CountChunkTokensReturns(c, est)
  \/ AcquireWake
  \/ \E c \in ChunkIds, kind \in {"ok", "empty", "throw"}, a \in JobActualSet,
        error \in RefusedErrors, r \in JitterSet : AnalyzeChunkReturns(c, kind, a, error, r)
  \/ \E c \in ChunkIds : ChunkBackoffWake(c)
  \/ \E est \in JobEstSet : CountConsolidationTokensReturns(est)
  \/ \E kind \in {"ok", "throw"}, a \in JobActualSet, error \in RefusedErrors,
        r \in JitterSet : ConsolidateChunksReturns(kind, a, error, r)
  \/ ConsolidationBackoffWake
  \/ JobTick

SpecJobRefused == InitJob /\ [][NextJobRefused]_vars

\* the retryable classes: quota exceeded, transient / infrastructure, empty result
InRetryableClass(error) ==
  error.message \in {"429 quota exceeded", "503 overloaded", "returned empty result"}

\* C20: in the job pipeline's executeWithRetry an error of no retryable class is
\* raised to the caller at once: it is counted by the FailureTracker, there is
\* no backoff sleep and the task is not invoked again.
C20_NonRetryableRaisedAtOnce ==
  [][sys = "job" =>
       \A t \in TaskIds :
         /\ (AttemptFails(t) /\ ~InRetryableClass(tasks'[t].lastError))
              => /\ tasks'[t].pc = "thrown"
                 /\ failureTracker'.totalFailures = failureTracker.totalFailures + 1
         /\ AttemptStarts(t)
              => (tasks[t].lastError = NoError \/ InRetryableClass(tasks[t].lastError))]_vars

\* every failed attempt, whatever its error, is counted by the FailureTracker
C20_EveryFailureCounted ==
  [][sys = "job" =>
       \A t \in TaskIds :
         AttemptFails(t)
           => failureTracker'.totalFailures = failureTracker.totalFailures + 1]_vars

\* a task is invoked again after an error of no retryable class
C20_RetriedAfterRefusal ==
  /\ sys = "job"
  /\ \E t \in TaskIds :
       /\ tasks[t].pc = "calling"
       /\ tasks[t].lastError = InvalidKeyError

(***************************************************************************)
(* Backoff delays: calculateBackoff of the job pipeline and of             *)
(* ProcessingQueue, applied to attempt numbers, errors and jitter values   *)
(***************************************************************************)
\* ProcessingQueue options: backoffBase and backoffMax defaults
pqBackoffBase == 2
pqBackoffMax == 60000

\* the largest attempt number the functions are applied to
MaxAttempt == 8
\* randomInt(1000), and Math.random() in thousandths
JitterValues == {0, 500, 999}
\* an error whose message holds "retry in <seconds>s"
RetryInError(seconds) ==
  [hasDelay |-> TRUE, seconds |-> seconds, message |-> "429 quota exceeded"]
BackoffErrors ==
  {NoDelayError, InvalidKeyError,
   RetryInError(<<3, 2>>), RetryInError(<<90, 1>>), RetryInError(<<0, 1>>)}

\* ProcessingQueue.extractRetryAfter: Math.ceil(parseFloat(match[1])), in seconds
PqExtractRetryAfter(error) == IF error.hasDelay THEN Ceil(error.seconds) ELSE 0

\* message.includes('503')
Includes503(error) == error.message = "503 overloaded"

\* ProcessingQueue.calculateBackoff(attempt, error, base, max), with r / 1000
\* the value of Math.random()
PqCalculateBackoff(attempt, error, base, max, r) ==
  LET retryAfter == PqExtractRetryAfter(error)
      baseDelay == IF Includes503(error) THEN 5000 ELSE 1000
      exponential == baseDelay * Pow(base, attempt)
      jitter == RatMul(RatMul(<<r, 1000>>, <<exponential, 1>>), <<1, 10>>)
  IN  IF retryAfter > 0
      THEN <<Min(retryAfter * 1000, max), 1>>
      ELSE RatMin(RatAdd(<<exponential, 1>>, jitter), <<max, 1>>)

InitBackoff ==
  /\ sys = "backoff"
  /\ applied = NotApplied
  /\ now = 0
  /\ NoLimiter
  /\ NoJob

\* calculateBackoff(attempt, error) of the job pipeline
ApplyCalculateBackoff(attempt, error, r) ==
  /\ sys = "backoff"
  /\ applied' = [fn |-> "calculateBackoff", attempt |-> attempt, error |-> error,
                 r |-> r, max |-> maxRetryDelayMs,
                 result |-> CalculateBackoff(attempt, error, r)]
  /\ UNCHANGED <<sys, chainVars, arlVars, swVars, jobVars>>

\* ProcessingQueue.calculateBackoff(attempt, error, backoffBase, backoffMax)
ApplyPqCalculateBackoff(attempt, error, r) ==
  /\ sys = "backoff"
  /\ applied' = [fn |-> "ProcessingQueue.calculateBackoff", attempt |-> attempt,
                 error |-> error, r |-> r, max |-> pqBackoffMax,
                 result |-> PqCalculateBackoff(attempt, error, pqBackoffBase,
                                               pqBackoffMax, r)]
  /\ UNCHANGED <<sys, chainVars, arlVars, swVars, jobVars>>

NextBackoff ==
  \/ \E attempt \in 0..MaxAttempt, error \in BackoffErrors, r \in JitterValues :
       ApplyCalculateBackoff(attempt, error, r)
  \/ \E attempt \in 0..MaxAttempt, error \in BackoffErrors, r \in JitterValues :
       ApplyPqCalculateBackoff(attempt, error, r)

SpecBackoff == InitBackoff /\ [][NextBackoff]_vars

\* C21: with jitter 0 and no server-suggested delay the backoff delay does not
\* decrease when the attempt number grows, and with any jitter and any
\* server-suggested delay it never exceeds the cap (60000 ms).
C21_BackoffMonotoneAndCapped ==
  [][sys = "backoff" =>
       /\ RatLeq(applied'.result, <<applied'.max, 1>>)
       /\ (/\ applied.fn = applied'.fn
           /\ applied.error = applied'.error
           /\ ~applied.error.hasDelay
           /\ applied.r = 0 /\ applied'.r = 0
           /\ applied.attempt <= applied'.attempt)
            => RatLeq(applied.result, applied'.result)]_vars

\* the exponential delay with jitter is above the cap and the cap is returned
C21_Witness ==
  /\ sys = "backoff"
  /\ applied.fn = "calculateBackoff"
  /\ ~applied.error.hasDelay
  /\ applied.r > 0
  /\ baseRetryDelayMs * Pow(backoffMultiplier, applied.attempt) > maxRetryDelayMs
  /\ applied.result = <<maxRetryDelayMs, 1>>

\* the error of the last call names a delay above zero
SuggestsDelay == applied.fn # "none" /\ applied.error.hasDelay /\ applied.error.seconds[1] > 0

\* the suggested delay in ms as each function reads it: the job pipeline rounds
\* it up to whole milliseconds, ProcessingQueue to whole seconds
RoundedSuggestedMs ==
  IF applied.fn = "calculateBackoff"
  THEN Ceil(RatMul(applied.error.seconds, <<1000, 1>>))
  ELSE Ceil(applied.error.seconds) * 1000

\* C22 (as stated): with a server-suggested delay above zero the delay is exactly
\* min(suggested delay, maximum delay), for every attempt number.
C22_ExactSuggestedDelay ==
  SuggestsDelay =>
    applied.result = RatMin(RatMul(applied.error.seconds, <<1000, 1>>), <<applied.max, 1>>)

\* C22 (amended): with a server-suggested delay above zero the delay is
\* min(suggested delay rounded up, maximum delay) for every attempt number and
\* jitter value: rounded up to whole milliseconds in the job pipeline and to
\* whole seconds in ProcessingQueue; exponential value and jitter are not used.
C22_RoundedSuggestedDelay ==
  SuggestsDelay => applied.result = <<Min(RoundedSuggestedMs, applied.max), 1>>

\* ProcessingQueue turns "retry in 1.5s" into 2000 ms, at a later attempt and
\* with jitter drawn
C22_Witness ==
  /\ SuggestsDelay
  /\ applied.fn = "ProcessingQueue.calculateBackoff"
  /\ applied.error.seconds = <<3, 2>>
  /\ applied.attempt > 0 /\ applied.r > 0
  /\ applied.result = <<2000, 1>>

(***************************************************************************)
(* Job pipeline with estimates small enough that the limiter never makes a *)
(* task wait, beside the trackers of two jobs running side by side         *)
(***************************************************************************)
SmallEstSet == {1000}
SmallActualSet == {1000}

\* the jobs whose processVideoInBackground calls run side by side
JobIds == {"jobA", "jobB"}

\* the largest number of recordFailure calls on one tracker
MaxTrackerCalls == 6

\* one FailureTracker per call of processVideoInBackground
InitTrackers ==
  /\ sys = "trackers"
  /\ applied = NotApplied
  /\ now = 0
  /\ NoLimiter
  /\ failureTracker = [j \in JobIds |-> NewFailureTracker]
  /\ ftLog = <<>>
  /\ ftReturn = TRUE
  /\ job = [status |-> "none", error |-> "", result |-> ""]
  /\ chunks = <<>>
  /\ tasks = <<>>
  /\ orch = "none"
  /\ aborted = FALSE
  /\ chunkResults = <<>>
  /\ tripped = FALSE

\* a tracker shared by all jobs (not what the code does)
TrackerOfAnyJob(trackers, j, tracker) == [k \in DOMAIN trackers |-> tracker]
\* the tracker is a local constant of the call for job j
TrackerOfJob(trackers, j, tracker) == [trackers EXCEPT ![j] = tracker]

\* a task of job j fails: failureTracker.recordFailure
TrackerRecordFailure(j) ==
  /\ sys = "trackers"
  /\ failureTracker[j].totalFailures < MaxTrackerCalls
  /\ failureTracker' = TrackerOfJob(failureTracker, j, RecordFailure(failureTracker[j]))
  /\ ftReturn' = RecordFailureReturn(RecordFailure(failureTracker[j]))
  /\ UNCHANGED <<sys, applied, chainVars, arlVars, swVars, ftLog, job, chunks, tasks, orch,
                 aborted, chunkResults, tripped>>

\* a task of job j succeeds: failureTracker.recordSuccess
TrackerRecordSuccess(j) ==
  /\ sys = "trackers"
  /\ failureTracker[j].consecutiveFailures > 0
  /\ failureTracker' = TrackerOfJob(failureTracker, j, RecordSuccess(failureTracker[j]))
  /\ UNCHANGED <<sys, applied, chainVars, arlVars, swVars, ftLog, ftReturn, job, chunks,
                 tasks, orch, aborted, chunkResults, tripped>>

NextJobShared ==
  \/ ProcessVideoInBackground
  \/ \E c \in ChunkIds, est \in SmallEstSet : CountChunkTokensReturns(c, est)
  \/ \E c \in ChunkIds, kind \in {"ok", "empty", "throw"}, a \in SmallActualSet,
        error \in JobErrors, r \in JitterSet : AnalyzeChunkReturns(c, kind, a, error, r)
  \/ \E c \in ChunkIds : ChunkBackoffWake(c)
  \/ \E est \in SmallEstSet : CountConsolidationTokensReturns(est)
  \/ \E kind \in {"ok", "throw"}, a \in SmallActualSet, error \in JobErrors, r \in JitterSet :
        ConsolidateChunksReturns(kind, a, error, r)
  \/ ConsolidationBackoffWake
  \/ \E j \in JobIds : TrackerRecordFailure(j)
  \/ \E j \in JobIds : TrackerRecordSuccess(j)

SpecJobShared == (InitJob \/ InitTrackers) /\ [][NextJobShared]_vars

\* C23: every chunk task and the consolidation step of a job record into the
\* job's one FailureTracker, so chunk failures count toward the thresholds that
\* stop consolidation (after four chunk failures a single consolidation failure
\* fails the job without a retry); trackers of different jobs are independent.
C23_TrackerSharedWithinJob ==
  [][/\ sys = "job" =>
          /\ \A t \in TaskIds :
               AttemptFails(t) =>
                 /\ failureTracker'.totalFailures = failureTracker.totalFailures + 1
                 /\ failureTracker'.consecutiveFailures
                      = failureTracker.consecutiveFailures + 1
          /\ (AttemptFails(Consolidation)
              /\ failureTracker.totalFailures = maxTotalFailures - 1)
               => /\ tasks'[Consolidation].pc = "thrown"
                  /\ job'.status = "failed"
     /\ sys = "trackers" =>
          \A j \in JobIds, k \in JobIds :
            (j # k /\ failureTracker'[j] # failureTracker[j])
              => failureTracker'[k] = failureTracker[k]]_vars

\* four chunk failures spread between successes, then the first consolidation
\* attempt fails and the job is failed
C23_Witness ==
  /\ sys = "job"
  /\ tasks[Consolidation].pc = "thrown"
  /\ tasks[Consolidation].attempt = 1
  /\ failureTracker.totalFailures = maxTotalFailures
  /\ failureTracker.consecutiveFailures = 1
  /\ job.status = "failed"

\* one job's tracker has tripped while the other job's tracker has counted
\* failures and is still below both thresholds
C23_TrackersApart ==
  /\ sys = "trackers"
  /\ ShouldAbort(failureTracker["jobA"])
  /\ failureTracker["jobB"].totalFailures > 0
  /\ ~ShouldAbort(failureTracker["jobB"])

(***************************************************************************)
(* Job pipeline: the error stored with a failed job                        *)
(***************************************************************************)
\* the job is marked failed in this step
JobFails == job.status # "failed" /\ job'.status = "failed"

\* the reason that names what tripped the breaker
TrippedReason(ft) ==
  IF ft.consecutiveFailures >= maxConsecutiveFailures THEN "consecutive failures"
  ELSE "total failures"

\* C24: a job that failures stopped is stored with a reason that tells the cause
\* apart (consecutive failures, total failures, exhausted retries), never with
\* the raw error of the last attempt.
C24_FailedJobStoresReason ==
  [][(sys = "job" /\ JobFails /\ ShouldAbort(failureTracker'))
       => job'.error = TrippedReason(failureTracker')]_vars

\* while the chunk tasks run, a job stopped by failures is stored with the reason
C24_ReasonInChunkPhase ==
  [][(sys = "job" /\ JobFails /\ ShouldAbort(failureTracker') /\ orch = "awaitChunks")
       => job'.error = TrippedReason(failureTracker')]_vars

\* the breaker tripped in the consolidation step and the job holds the raw error
C24_RawErrorStored ==
  /\ sys = "job"
  /\ job.status = "failed"
  /\ tasks[Consolidation].pc = "thrown"
  /\ ShouldAbort(failureTracker)
  /\ job.error = NoDelayError.message

(***************************************************************************)
(* Job of five chunks whose remote calls behave as scripted: the calls for *)
(* chunks 2 and 3 fail twice and then succeed, every call for chunk 5      *)
(* fails, the calls for chunks 1 and 4 succeed                             *)
(***************************************************************************)
\* job.chunks.length of the scripted job
ScriptedChunks == 5
ScriptedChunkIds == 1..ScriptedChunks

\* what analyzeChunk does at the given attempt of chunk c
ScriptedOutcome(c, tries) ==
  IF c \in {2, 3} THEN (IF tries <= 2 THEN "throw" ELSE "ok")
  ELSE IF c = 5 THEN "throw"
  ELSE "ok"

\* the countTokens calls are answered in the order they were made
CountsInOrder(c) == \A d \in 1..(c - 1) : tasks[d].pc # "counting"
\* the analyzeChunk call for the first chunk is answered before the others
FirstChunkAnswered(c) == c = 1 \/ tasks[1].pc = "returned"

InitScripted ==
  /\ sys = "job"
  /\ applied = NotApplied
  /\ now = 0
  /\ NoLimiter
  /\ failureTracker = NewFailureTracker
  /\ ftLog = <<>>
  /\ ftReturn = TRUE
  /\ \E config \in JobConfigs : job = CreateJob(config)
  /\ chunks = [c \in ScriptedChunkIds |-> CreateChunk]
  /\ tasks = [t \in {Consolidation} \cup ScriptedChunkIds |->
                NewTask(IF t = Consolidation THEN "idle" ELSE "queued")]
  /\ orch = "created"
  /\ aborted = FALSE
  /\ chunkResults = <<>>
  /\ tripped = FALSE

\* chunk 5 never succeeds, so the consolidation step is never reached, and the
\* estimates are small enough that no acquire has to sleep
NextScripted ==
  \/ ProcessVideoInBackground
  \/ \E c \in ScriptedChunkIds, est \in SmallEstSet :
       /\ CountsInOrder(c)
       /\ CountChunkTokensReturns(c, est)
  \/ \E c \in ScriptedChunkIds, a \in SmallActualSet, error \in JobErrors, r \in JitterSet :
       /\ FirstChunkAnswered(c)
       /\ AnalyzeChunkReturns(c, ScriptedOutcome(c, tasks[c].tries), a, error, r)
  \/ \E c \in ScriptedChunkIds : ChunkBackoffWake(c)

SpecScripted == InitScripted /\ [][NextScripted]_vars

\* every chunk task has settled
AllSettled == \A c \in DOMAIN chunks : tasks[c].pc \in {"returned", "thrown"}

\* the outcome the scenario describes
ScenarioOutcome ==
  /\ job.status = "failed"
  /\ job.error = "consecutive failures"
  /\ \A c \in 1..4 : chunks[c].status = "completed"

\* C25: in a job of 5 chunks where chunks 2 and 3 fail twice and then succeed
\* and chunk 5 fails three times in a row, the job ends failed with the
\* consecutive-failures reason and chunks 1 to 4 are completed.
C25_ScenarioOutcome == (sys = "job" /\ AllSettled) => ScenarioOutcome

\* chunk 5 never fails three times in a run where chunks 2 and 3 both fail
\* twice and then succeed: seven failures do not fit under the total threshold
C25_PremiseNeverMet ==
  sys = "job" =>
    ~(/\ tasks[5].attempt >= 3
      /\ chunks[2].status = "completed"
      /\ chunks[3].status = "completed")

\* the job ends failed with the total-failures reason
C25_TotalFailuresReason ==
  /\ sys = "job"
  /\ AllSettled
  /\ job.status = "failed"
  /\ job.error = "total failures"

(***************************************************************************)
(* Three requests at one instant: a SlidingWindow of limit 100, and an     *)
(* AdaptiveRateLimiter whose effective or nominal token limit is 100.      *)
(***************************************************************************)
\* the limit handed to the SlidingWindow constructor
ThreeLimit == 100
\* the tokens handed to each acquire
ThreeCost == 40
\* nominal limits: 112 gives the effective limit 100, 100 gives 90
ThreeConfigs == { [tpm |-> 112, rpm |-> 10], [tpm |-> 100, rpm |-> 10] }
ThreeActualSet == {0, 120}

InitThreeSw ==
  /\ sys = "sw"
  /\ applied = NotApplied
  /\ now = 0
  /\ slidingWindow = [limit |-> ThreeLimit, requestLog |-> <<>>]
  /\ tpmWindow = NoWindow
  /\ rpmWindow = NoWindow
  /\ tpmLimit = 0
  /\ rpmLimit = 0
  /\ window = <<>>
  /\ safetyMultiplier = initialSafetyMultiplier
  /\ accuracyHistory = <<>>
  /\ acquireChain = <<>>
  /\ internal = NoCall
  /\ requests = [r \in RequestIds |-> [st |-> "new", est |-> 0]]
  /\ admitted = <<>>
  /\ NoJob

InitThreeArl ==
  /\ sys = "arl"
  /\ applied = NotApplied
  /\ now = 0
  /\ \E c \in ThreeConfigs :
       /\ tpmLimit = ArlTpmLimit(c.tpm)
       /\ rpmLimit = ArlRpmLimit(c.rpm)
  /\ window = <<>>
  /\ acquireChain = <<>>
  /\ internal = NoCall
  /\ safetyMultiplier = initialSafetyMultiplier
  /\ accuracyHistory = <<>>
  /\ requests = [r \in RequestIds |-> [st |-> "new", est |-> 0]]
  /\ admitted = <<>>
  /\ NoJob
  /\ slidingWindow = NoWindow
  /\ tpmWindow = NoWindow
  /\ rpmWindow = NoWindow

AllArrived == \A r \in RequestIds : requests[r].st # "new"

\* the three acquire calls are made at the instant 0; the remote calls return,
\* metrics are read and time passes once all three have arrived
NextThree ==
  \/ \E r \in RequestIds : now = 0 /\ SwAcquire(r, ThreeCost)
  \/ SwWake
  \/ \E r \in RequestIds : now = 0 /\ ArlAcquire(r, ThreeCost)
  \/ ArlWake
  \/ \E r \in RequestIds : \E a \in ThreeActualSet : AllArrived /\ ArlRecordActual(r, a)
  \/ AllArrived /\ ArlGetMetrics
  \/ AllArrived /\ Tick

SpecThree == (InitThreeSw \/ InitThreeArl) /\ [][NextThree]_vars

\* the instants at which request r was admitted
AdmissionTimes(r) ==
  { admitted[i][2] : i \in { j \in 1..Len(admitted) : admitted[j][1] = r } }
\* request r was admitted in the step of its acquire call
AdmittedAtOnce(r) == requests[r].st # "new" => 0 \in AdmissionTimes(r)
\* request r was admitted only when the entries of instant 0 had left the window
AdmittedAfterWindow(r) == \A t \in AdmissionTimes(r) : t - windowMs >= 0
\* the tokens the limiter counts in its window
CountedUsage ==
  IF sys = "sw" THEN GetCurrentUsage(slidingWindow.requestLog) ELSE ExpectedUsage(window)
\* requests 1 and 2 hold their entries and request 3 is waiting
TwoAdmittedThirdWaits ==
  /\ requests[1].st = "admitted"
  /\ requests[2].st = "admitted"
  /\ requests[3].st = "called"
  /\ now = 0
\* the step that admits request r
AdmitsRequest(r) == requests[r].st = "called" /\ requests'[r].st = "admitted"

\* C26 (as stated): whichever limiter has limit 100, the first two requests are
\* admitted immediately with usage 80 of 100, and the third is admitted only once
\* the usage has dropped to at most 60, not before the first entry left the window
C26_ThreeAtOnce ==
  /\ [](/\ AdmittedAtOnce(1)
        /\ AdmittedAtOnce(2)
        /\ TwoAdmittedThirdWaits => CountedUsage = 2 * ThreeCost
        /\ AdmittedAfterWindow(3))
  /\ [][AdmitsRequest(3) => CountedUsage' - ThreeCost <= ThreeLimit - ThreeCost]_vars

\* C26 (amended): a SlidingWindow of limit 100 admits the first two requests
\* immediately with usage 80 and the third only when the usage is at most 60, not
\* before the first entry left the window; an AdaptiveRateLimiter counts each request
\* of 40 as 48: with effective limit 100 it admits the first two immediately with
\* usage 96 and the third not before the first entry left the window, at usage at
\* most 52; with nominal limit 100 (effective 90) it admits only the first
\* immediately and every later one after the window of the one before
C26_ThreeAtOnceByLimiter ==
  /\ [](/\ AdmittedAtOnce(1)
        /\ AdmittedAfterWindow(3)
        /\ sys = "sw" =>
             /\ AdmittedAtOnce(2)
             /\ TwoAdmittedThirdWaits => CountedUsage = 2 * ThreeCost
        /\ (sys = "arl" /\ tpmLimit = ThreeLimit) =>
             /\ AdmittedAtOnce(2)
             /\ TwoAdmittedThirdWaits =>
                  CountedUsage = 2 * SafeEstimate(ThreeCost, initialSafetyMultiplier)
        /\ (sys = "arl" /\ tpmLimit < ThreeLimit) =>
             /\ AdmittedAfterWindow(2)
             /\ \A t2 \in AdmissionTimes(2) : \A t3 \in AdmissionTimes(3) :
                  t3 - windowMs >= t2)
  /\ [][AdmitsRequest(3) =>
          /\ sys = "sw" => CountedUsage' - ThreeCost <= ThreeLimit - ThreeCost
          /\ sys = "arl" =>
               CountedUsage' - SafeEstimate(ThreeCost, initialSafetyMultiplier)
                 <= tpmLimit - SafeEstimate(ThreeCost, initialSafetyMultiplier)]_vars

\* the third request was admitted, after the first two, on each kind of limiter
C26_Witness ==
  /\ sys = "sw"
  /\ 0 \in AdmissionTimes(1)
  /\ 0 \in AdmissionTimes(2)
  /\ AdmissionTimes(3) # {}
C26_WitnessArl ==
  /\ sys = "arl"
  /\ tpmLimit = ThreeLimit
  /\ 0 \in AdmissionTimes(2)
  /\ AdmissionTimes(3) # {}

(***************************************************************************)
(* Pruning, as a function of the window and the instant                    *)
(***************************************************************************)
\* the instants at which the window of the current state may be pruned
PruneTimes == {now, now + TickMs, now + windowMs}
\* the positions of w whose entries are inside the window at t
KeptIndices(w, t) == { i \in 1..Len(w) : ~(w[i].timestamp <= t - windowMs) }
\* p holds the entries of w inside the window at t, in their order, and no others
PrunedExactly(w, p, t) ==
  /\ Len(p) = Cardinality(KeptIndices(w, t))
  /\ \A k \in 1..Len(p) :
       LET i == CHOOSE i \in KeptIndices(w, t) :
                  Cardinality({ j \in KeptIndices(w, t) : j <= i }) = k
       IN  p[k] = w[i]
\* the windows the limiter of the current state holds
SwLogs ==
  IF sys = "sw" THEN {slidingWindow.requestLog}
  ELSE IF sys = "rl" THEN {tpmWindow.requestLog, rpmWindow.requestLog}
  ELSE {}
ArlWindows == IF sys = "arl" THEN {window} ELSE {}

\* C27: pruning a window twice at one instant leaves what pruning once leaves, for
\* SlidingWindow.prune and AdaptiveRateLimiter.pruneWindow, and pruning removes
\* exactly the entries with timestamp <= now - windowMs
C27_PruneIdempotentExact ==
  \A t \in PruneTimes :
    /\ \A log \in SwLogs :
         /\ Prune(Prune(log, t), t) = Prune(log, t)
         /\ PrunedExactly(log, Prune(log, t), t)
    /\ \A w \in ArlWindows :
         /\ PruneWindow(PruneWindow(w, t), t) = PruneWindow(w, t)
         /\ PrunedExactly(w, PruneWindow(w, t), t)

\* a window holds an entry on the boundary now - windowMs and a younger one
C27_Witness ==
  /\ sys = "sw"
  /\ \E i, j \in 1..Len(slidingWindow.requestLog) :
       /\ slidingWindow.requestLog[i].timestamp = now - windowMs
       /\ slidingWindow.requestLog[j].timestamp > now - windowMs
C27_WitnessArl ==
  /\ sys = "arl"
  /\ \E i, j \in 1..Len(window) :
       /\ window[i].timestamp = now - windowMs
       /\ window[j].timestamp > now - windowMs

(***************************************************************************)
(* The effective limits, as functions of the nominal limits                *)
(***************************************************************************)
\* the nominal limits a limiter is constructed with
LimitTpmSet == {1, 5, 10, 67, 100, 123, 1000, 250000}
LimitRpmSet == {1, 2, 3, 10, 15, 100, 1000}

InitLimits ==
  /\ sys = "limits"
  /\ applied = NotApplied
  /\ now = 0
  /\ NoLimiter
  /\ NoJob

\* new AdaptiveRateLimiter({ tpm, rpm, bufferPercent: 0.1 })
ApplyArlConstructor(tpm, rpm) ==
  /\ sys = "limits"
  /\ applied' = [fn |-> "AdaptiveRateLimiter", tpm |-> tpm, rpm |-> rpm,
                 tpmLimit |-> ArlTpmLimit(tpm), rpmLimit |-> ArlRpmLimit(rpm)]
  /\ UNCHANGED <<sys, chainVars, arlVars, swVars, jobVars>>

\* getEffectiveLimits({ tpm, rpm })
ApplyGetEffectiveLimits(tpm, rpm) ==
  /\ sys = "limits"
  /\ LET eff == GetEffectiveLimits([tpm |-> tpm, rpm |-> rpm])
     IN  applied' = [fn |-> "getEffectiveLimits", tpm |-> tpm, rpm |-> rpm,
                     tpmLimit |-> eff.tpm, rpmLimit |-> eff.rpm]
  /\ UNCHANGED <<sys, chainVars, arlVars, swVars, jobVars>>

NextLimits ==
  \/ \E tpm \in LimitTpmSet, rpm \in LimitRpmSet : ApplyArlConstructor(tpm, rpm)
  \/ \E tpm \in LimitTpmSet, rpm \in LimitRpmSet : ApplyGetEffectiveLimits(tpm, rpm)

SpecLimits == InitLimits /\ [][NextLimits]_vars

LimitsApplied == applied # NotApplied /\ applied.fn \in {"AdaptiveRateLimiter", "getEffectiveLimits"}
\* the nominal limit less the buffer percentage, rounded down and rounded up
BufferedDown(n) == Floor(RatMul(<<n, 1>>, RatSub(<<1, 1>>, bufferPercent)))
BufferedUp(n) == Ceil(RatMul(<<n, 1>>, RatSub(<<1, 1>>, bufferPercent)))
IsBuffered(n, eff) == BufferedDown(n) <= eff /\ eff <= BufferedUp(n)

\* C28: the effective token limit and the effective request limit are the nominal
\* limits less the buffer percentage (rpm 1000 gives 900 with 10%), and each
\* effective limit is at least 1
C28_EffectiveLimitsBuffered ==
  LimitsApplied =>
    /\ IsBuffered(applied.tpm, applied.tpmLimit)
    /\ IsBuffered(applied.rpm, applied.rpmLimit) \/ applied.rpmLimit = 1
    /\ applied.tpmLimit >= 1
    /\ applied.rpmLimit >= 1

\* what the code computes: the token limit loses the percentage and may reach 0,
\* the request limit loses one request and stays at least 1
C28_LimitsAsComputed ==
  LimitsApplied =>
    /\ applied.tpmLimit = BufferedDown(applied.tpm)
    /\ applied.rpmLimit = (IF applied.rpm > 1 THEN applied.rpm - 1 ELSE 1)

\* the nominal request limit 1000 gives the effective request limit 999
C28_Rpm1000Gives999 ==
  /\ LimitsApplied
  /\ applied.fn = "AdaptiveRateLimiter"
  /\ applied.rpm = 1000
  /\ applied.rpmLimit = 999
\* the nominal token limit 1 gives the effective token limit 0
C28_TokenLimitZero ==
  /\ LimitsApplied
  /\ applied.fn = "AdaptiveRateLimiter"
  /\ applied.tpm = 1
  /\ applied.tpmLimit = 0

(***************************************************************************)
(* The accuracy ratio of recordActual, over six requests that never wait   *)
(***************************************************************************)
MaxRatioReq == 6
RatioIds == 1..MaxRatioReq
\* the raw estimates passed to acquire and the actual costs reported
RatioEstSet == {7, 100}
RatioActualSet == {120}

InitRatio ==
  /\ sys = "arl"
  /\ applied = NotApplied
  /\ now = 0
  /\ tpmLimit = ArlTpmLimit(AdaptConfig.tpm)
  /\ rpmLimit = ArlRpmLimit(AdaptConfig.rpm)
  /\ window = <<>>
  /\ acquireChain = <<>>
  /\ internal = NoCall
  /\ safetyMultiplier = initialSafetyMultiplier
  /\ accuracyHistory = <<>>
  /\ requests = [r \in RatioIds |-> [st |-> "new", est |-> 0]]
  /\ admitted = <<>>
  /\ NoJob
  /\ slidingWindow = NoWindow
  /\ tpmWindow = NoWindow
  /\ rpmWindow = NoWindow

NextRatio ==
  \/ \E r \in RatioIds, est \in RatioEstSet : ArlAcquire(r, est)
  \/ \E r \in RatioIds, actualTokens \in RatioActualSet : ArlRecordActual(r, actualTokens)

SpecRatio == InitRatio /\ [][NextRatio]_vars

\* the step in which recordActual(r, a) finds its entry
RecordsActual(r) ==
  /\ requests[r].st = "admitted"
  /\ requests'[r].st = "recorded"
  /\ FindEntry(window', r) # 0
\* the actual cost that step wrote in the entry
RecordedActualOf(r) == window'[FindEntry(window', r)].actual
LastOf(s) == s[Len(s)]

\* C29: the ratio appended by recordActual(r, a) is a divided by the raw estimate
\* passed to acquire for r, also when the multiplier changed in between
C29_RatioOverRawEstimate ==
  [][\A r \in DOMAIN requests :
       RecordsActual(r) =>
         /\ Len(accuracyHistory') = Len(accuracyHistory) + 1
         /\ LastOf(accuracyHistory') = Rat(RecordedActualOf(r), requests[r].est)]_vars

\* what the code computes: a times the multiplier of the instant of recordActual,
\* divided by the rounded-up inflated estimate written at acquire
C29_RatioOverDeflatedEntry ==
  [][\A r \in DOMAIN requests :
       RecordsActual(r) =>
         LastOf(accuracyHistory') =
           Rat(RecordedActualOf(r) * safetyMultiplier[1],
               safetyMultiplier[2] * window[FindEntry(window, r)].estimated)]_vars

\* every estimate was 100 and every actual cost 120, and a ratio other than 1.2 is
\* in the history: the multiplier moved between an acquire and its recordActual
C29_RatioAfterMultiplierChange ==
  /\ sys = "arl"
  /\ \A r \in DOMAIN requests : requests[r].st # "new" => requests[r].est = 100
  /\ \A i \in 1..Len(window) : window[i].actual \in {NULL, 120}
  /\ \E k \in 1..Len(accuracyHistory) : accuracyHistory[k] # <<6, 5>>
\* the first request: estimate 7 and actual cost 120 give a ratio other than 120/7
C29_RatioAfterRounding ==
  /\ sys = "arl"
  /\ requests[1].est = 7
  /\ requests[1].st = "recorded"
  /\ Len(window) >= 1 /\ window[1].actual = 120
  /\ Len(accuracyHistory) = 1
  /\ accuracyHistory[1] # <<120, 7>>

(***************************************************************************)
(* recordActual against pruning                                            *)
(***************************************************************************)
\* the step in which recordActual is called for the admitted request r
CallsRecordActual(r) == requests[r].st = "admitted" /\ requests'[r].st = "recorded"
Recorded == { r \in DOMAIN requests : requests[r].st = "recorded" }

\* C30: recordActual for an admitted request finds its entry whatever pruning by
\* acquire or getMetrics came between and however long the remote call took, and
\* appends exactly one ratio to the history, which holds at most 20 ratios
C30_RecordFindsEntry ==
  [][sys = "arl" =>
       /\ Len(accuracyHistory') <= accuracyHistorySize
       /\ \A r \in DOMAIN requests :
            CallsRecordActual(r) =>
              /\ FindEntry(window, r) # 0
              /\ Len(accuracyHistory') =
                   Min(Len(accuracyHistory) + 1, accuracyHistorySize)]_vars

\* within windowMs of the admission the entry is found and one ratio is appended
C30_FoundWithinWindow ==
  [][sys = "arl" =>
       \A r \in DOMAIN requests :
         (CallsRecordActual(r) /\ \E t \in AdmissionTimes(r) : now - t < windowMs) =>
           /\ FindEntry(window, r) # 0
           /\ Len(accuracyHistory') = Len(accuracyHistory) + 1]_vars

\* a recordActual call has left no ratio: its entry was pruned before the call
C30_RecordLost ==
  /\ sys = "arl"
  /\ Cardinality(Recorded) > Len(accuracyHistory)

(***************************************************************************)
(* SlidingWindow.getWaitTime                                               *)
(***************************************************************************)
\* the costs asked of getWaitTime: 70 is above the smaller limit
WaitCostSet == {10, 40, 70}

\* getWaitTime(tokens): prunes the log and computes the wait
SwGetWaitTime(tokens) ==
  /\ sys = "sw"
  /\ LET pruned == Prune(slidingWindow.requestLog, now)
     IN  /\ slidingWindow' = [slidingWindow EXCEPT !.requestLog = pruned]
         /\ applied' = [fn |-> "getWaitTime", tokens |-> tokens, t |-> now,
                        before |-> slidingWindow,
                        result |-> GetWaitTime(slidingWindow, tokens, now)]
  /\ UNCHANGED <<sys, chainVars, arlVars, tpmWindow, rpmWindow, jobVars>>

NextWait ==
  \/ \E r \in RequestIds, tokens \in EstSet : SwAcquire(r, tokens)
  \/ SwWake
  \/ \E r \in RequestIds, tokens \in EstSet : SwTryAcquire(r, tokens)
  \/ \E tokens \in WaitCostSet : SwGetWaitTime(tokens)
  \/ Tick

SpecWait == InitSw /\ [][NextWait]_vars

WaitApplied == applied # NotApplied /\ applied.fn = "getWaitTime"
\* the tokens of the first k entries
RECURSIVE FreedBy(_, _)
FreedBy(log, k) == IF k = 0 THEN 0 ELSE log[k].tokens + FreedBy(log, k - 1)
\* the position of the last entry that must leave before `need` tokens are free,
\* walking oldest to newest; the newest entry when the whole log is not enough
MustLeave(log, need) ==
  LET enough == { k \in 1..Len(log) : FreedBy(log, k) >= need }
  IN  IF enough = {} THEN Len(log) ELSE CHOOSE k \in enough : \A j \in enough : k <= j

\* C31: getWaitTime(cost) is 0 exactly when tryAcquire(cost) would succeed at that
\* instant; otherwise it is the expiry of the last entry that must leave, plus
\* 100 ms, minus now, and for a cost within the limit tryAcquire(cost) succeeds
\* after that time with no admission in between; the call admits nothing
C31_WaitTimeMatchesTryAcquire ==
  WaitApplied =>
    LET sw == applied.before
        t == applied.t
        log == Prune(sw.requestLog, t)
        need == GetCurrentUsage(log) + applied.tokens - sw.limit
    IN  /\ applied.result = 0 <=> TryAcquire(sw, applied.tokens, t).ok
        /\ (applied.result # 0 /\ log # <<>>) =>
             applied.result = log[MustLeave(log, need)].timestamp + windowMs + 100 - t
        /\ applied.tokens <= sw.limit =>
             TryAcquire(sw, applied.tokens, t + applied.result).ok
C31_WaitTimeAdmitsNothing ==
  [][(sys = "sw" /\ applied' # applied) =>
       /\ Prune(slidingWindow'.requestLog, now) = Prune(slidingWindow.requestLog, now)
       /\ GetCurrentUsage(Prune(slidingWindow'.requestLog, now))
            = GetCurrentUsage(Prune(slidingWindow.requestLog, now))
       /\ admitted' = admitted]_vars
C31_WaitTime == []C31_WaitTimeMatchesTryAcquire /\ C31_WaitTimeAdmitsNothing

\* getWaitTime answered with the expiry of the second entry of the log
C31_Witness ==
  /\ WaitApplied
  /\ applied.tokens <= applied.before.limit
  /\ LET log == Prune(applied.before.requestLog, applied.t)
     IN  /\ Len(log) >= 2
         /\ applied.result = log[2].timestamp + windowMs + 100 - applied.t
         /\ log[2].timestamp > log[1].timestamp

(***************************************************************************)
(* Backoff by error class                                                  *)
(***************************************************************************)
\* an overloaded response whose message carries no status code
OverloadedOnlyError ==
  [hasDelay |-> FALSE, seconds |-> <<0, 1>>, message |-> "the model is overloaded"]
\* a generic retryable error
FetchFailedError == [hasDelay |-> FALSE, seconds |-> <<0, 1>>, message |-> "fetch failed"]
ClassErrors == {NoDelayError, OverloadedOnlyError, FetchFailedError}
\* isRetryable: message.includes('503') || message.includes('overloaded')
IsOverloaded(error) ==
  Includes503(error) \/ error.message \in {"503 overloaded", "the model is overloaded"}

NextBackoffClass ==
  \/ \E attempt \in 0..MaxAttempt, error \in ClassErrors, r \in JitterValues :
       ApplyCalculateBackoff(attempt, error, r)
  \/ \E attempt \in 0..MaxAttempt, error \in ClassErrors, r \in JitterValues :
       ApplyPqCalculateBackoff(attempt, error, r)

SpecBackoffClass == InitBackoff /\ [][NextBackoffClass]_vars

\* the delay the applied function gives a generic error at the same attempt
GenericDelay ==
  IF applied.fn = "calculateBackoff"
  THEN CalculateBackoff(applied.attempt, FetchFailedError, 0)
  ELSE PqCalculateBackoff(applied.attempt, FetchFailedError, pqBackoffBase, pqBackoffMax, 0)
\* a call with an overloaded error, jitter 0 and no server-suggested delay
OverloadedApplied ==
  /\ applied # NotApplied
  /\ applied.fn \in {"calculateBackoff", "ProcessingQueue.calculateBackoff"}
  /\ IsOverloaded(applied.error)
  /\ applied.r = 0
LongerThan(x, y) == RatLeq(y, x) /\ x # y

\* C32: with jitter 0 and no server-suggested delay, the delay after an error
\* classified as overloaded is longer than the delay after a generic error at the
\* same attempt (or both have reached the cap)
C32_OverloadedWaitsLonger ==
  OverloadedApplied =>
    \/ LongerThan(applied.result, GenericDelay)
    \/ applied.result = <<applied.max, 1>> /\ GenericDelay = <<applied.max, 1>>

\* ProcessingQueue.calculateBackoff gives the longer delay to a message with 503
C32_Pq503WaitsLonger ==
  (OverloadedApplied /\ applied.fn = "ProcessingQueue.calculateBackoff"
     /\ Includes503(applied.error)) =>
    \/ LongerThan(applied.result, GenericDelay)
    \/ applied.result = <<applied.max, 1>>

\* the pipeline's calculateBackoff gives a 503 error the delay of a generic error
C32_PipelineSameDelay ==
  /\ OverloadedApplied
  /\ applied.fn = "calculateBackoff"
  /\ applied.attempt = 0
  /\ applied.result = GenericDelay
\* ProcessingQueue gives an overloaded error without 503 the delay of a generic error
C32_PqOverloadedSameDelay ==
  /\ OverloadedApplied
  /\ applied.fn = "ProcessingQueue.calculateBackoff"
  /\ applied.error = OverloadedOnlyError
  /\ applied.attempt = 0
  /\ applied.result = GenericDelay

(***************************************************************************)
(* An attempt whose remote call returned no events                         *)
(***************************************************************************)
\* the attempt of chunk task c ends in this step with the empty-result error
EmptyResultAttempt(c) == AttemptFails(c) /\ tasks'[c].lastError = EmptyResultError

\* C33: an attempt whose remote call returned no events is a failed attempt: the
\* FailureTracker records a failure, the chunk is not completed and gets no
\* result, and the attempt is retried after a backoff unless the breaker trips
C33_EmptyResultIsFailure ==
  [][sys = "job" =>
       \A c \in DOMAIN chunks :
         EmptyResultAttempt(c) =>
           /\ failureTracker' = RecordFailure(failureTracker)
           /\ chunks'[c].status # "completed"
           /\ ~chunks'[c].hasResult
           /\ chunkResults' = chunkResults
           /\ job'.totalTokensUsed = job.totalTokensUsed
           /\ IF ShouldAbort(failureTracker')
              THEN tasks'[c].pc = "thrown"
              ELSE /\ tasks'[c].pc = "sleeping"
                   /\ chunks'[c].status = "retrying"
                   /\ \E r \in JitterSet :
                        tasks'[c].wakeAt =
                          now + Floor(CalculateBackoff(tasks'[c].attempt, EmptyResultError, r))]_vars

\* a chunk task is back in its remote call after an attempt that returned no events
C33_Witness ==
  /\ sys = "job"
  /\ \E c \in DOMAIN chunks :
       /\ tasks[c].lastError = EmptyResultError
       /\ tasks[c].pc = "calling"
       /\ tasks[c].attempt >= 1
       /\ ~chunks[c].hasResult
       /\ failureTracker.totalFailures >= 1

(***************************************************************************)
(* How often one executeWithRetry call invokes its task                    *)
(***************************************************************************)
\* C34: one executeWithRetry call never invokes its task more than
\* maxTotalFailures times, whatever the other tasks of the job do
C34_InvocationsBounded ==
  sys = "job" => \A t \in DOMAIN tasks : tasks[t].tries <= maxTotalFailures

\* a task is in its fifth invocation, after four failures of its own that the
\* success of another task kept from being three in a row
C34_Witness ==
  /\ sys = "job"
  /\ \E t \in DOMAIN tasks :
       /\ tasks[t].tries = maxTotalFailures
       /\ tasks[t].attempt = maxTotalFailures - 1
       /\ tasks[t].pc = "calling"

(***************************************************************************)
(* ProcessingQueue over a RateLimiter.  A task of the queue is             *)
(* [pc, attempt, requestId, invoked, onRetry, onError, lastError, wakeAt]. *)
(***************************************************************************)
NumPqTasks == 2
PqTaskIds == 1..NumPqTasks
\* options.maxRetries
PqMaxRetries == 2
\* the limits the RateLimiter is constructed with, and the estimate of every task
PqLimits == [tpm |-> 123, rpm |-> 3]
PqEstimate == 40
\* the errors a task throws
PqErrors == {NoDelayError, InvalidKeyError, RetryInError(<<3, 2>>)}

\* isRetryable
PqIsRetryableAlways(error) == TRUE
PqIsRetryable(error) ==
  \/ IsOverloaded(error)
  \/ error.message = "fetch failed"
  \/ error.message = "429 quota exceeded"

\* the id under which attempt number `attempt` of task p waits in the limiter
PqRequestId(p, attempt) == (p - 1) * (PqMaxRetries + 1) + attempt + 1

NewPqTask ==
  [pc |-> "new", attempt |-> 0, requestId |-> 0, invoked |-> 0, onRetry |-> 0,
   onError |-> 0, lastError |-> NoError, wakeAt |-> 0]

InitPq ==
  /\ sys = "pq"
  /\ applied = NotApplied
  /\ now = 0
  /\ LET effectiveLimits == GetEffectiveLimits(PqLimits)
     IN  /\ tpmWindow = [limit |-> effectiveLimits.tpm, requestLog |-> <<>>]
         /\ rpmWindow = [limit |-> effectiveLimits.rpm, requestLog |-> <<>>]
  /\ slidingWindow = NoWindow
  /\ tpmLimit = 0
  /\ rpmLimit = 0
  /\ window = <<>>
  /\ safetyMultiplier = initialSafetyMultiplier
  /\ accuracyHistory = <<>>
  /\ acquireChain = <<>>
  /\ internal = NoCall
  /\ requests = <<>>
  /\ admitted = <<>>
  /\ failureTracker = [consecutiveFailures |-> 0, totalFailures |-> 0]
  /\ ftLog = <<>>
  /\ ftReturn = TRUE
  /\ job = [status |-> "none", error |-> "", result |-> ""]
  /\ chunks = <<>>
  /\ tasks = [p \in PqTaskIds |-> NewPqTask]
  /\ orch = "none"
  /\ aborted = FALSE
  /\ chunkResults = <<>>
  /\ tripped = FALSE

\* await this.rateLimiter.acquire(estimatedTokens), called at time t
PqRateLimiterAcquire(id, tokens, t) ==
  LET chain == Enqueue(acquireChain, [requestId |-> id, tokens |-> tokens])
  IN  IF internal # NoCall
      THEN [acquireChain |-> chain, internal |-> internal, tw |-> tpmWindow,
            rw |-> rpmWindow, admitted |-> admitted]
      ELSE RlRunChain(chain, tpmWindow, rpmWindow, admitted, t)

PqSetLimiter(res) ==
  /\ acquireChain' = res.acquireChain
  /\ internal' = res.internal
  /\ tpmWindow' = res.tw
  /\ rpmWindow' = res.rw
  /\ admitted' = res.admitted

\* the tasks whose acquire has returned go on to `await task()`
PqResume(tks, adm) ==
  [p \in DOMAIN tks |->
     IF tks[p].pc = "acquiring" /\ tks[p].requestId \in Admitted(adm)
     THEN [tks[p] EXCEPT !.pc = "calling", !.invoked = @ + 1]
     ELSE tks[p]]

\* executeWithRetry at the head of its for loop, at time t
PqBeginAttempt(p, attempt, t) ==
  LET id == PqRequestId(p, attempt)
      res == PqRateLimiterAcquire(id, PqEstimate, t)
      tks == [tasks EXCEPT ![p] = [@ EXCEPT !.pc = "acquiring", !.attempt = attempt,
                                            !.requestId = id]]
  IN  /\ PqSetLimiter(res)
      /\ tasks' = PqResume(tks, res.admitted)

\* add(task, estimatedTokens): PQueue starts the task (fewer than 10 are running)
PqAdd(p) ==
  /\ sys = "pq"
  /\ tasks[p].pc = "new"
  /\ PqBeginAttempt(p, 0, now)
  /\ UNCHANGED <<sys, applied, now, requests, arlVars, slidingWindow, ftVars, job, chunks,
                 orch, aborted, chunkResults, tripped>>

\* the sleep of RateLimiter.acquireInternal ends and the loop runs again
PqRlWake ==
  /\ sys = "pq"
  /\ internal # NoCall
  /\ LET t == Max(now, internal.wakeAt)
         it == RlIterate(tpmWindow, rpmWindow, internal.tokens, t)
     IN  /\ t <= MaxNow
         /\ now' = t
         /\ IF it.ok
            THEN LET res == RlRunChain(acquireChain, it.tw, it.rw,
                                       Append(admitted, <<internal.requestId, t>>), t)
                 IN  /\ PqSetLimiter(res)
                     /\ tasks' = PqResume(tasks, res.admitted)
            ELSE /\ internal' = [internal EXCEPT !.wakeAt = it.wakeAt]
                 /\ tpmWindow' = it.tw
                 /\ rpmWindow' = it.rw
                 /\ UNCHANGED <<acquireChain, admitted, tasks>>
  /\ UNCHANGED <<sys, applied, requests, arlVars, slidingWindow, ftVars, job, chunks,
                 orch, aborted, chunkResults, tripped>>

\* the task of p returns ("ok") or throws: the rest of the attempt and the catch
\* block, whose getMetrics prunes both windows; r / 1000 is Math.random()
PqTaskReturns(p, kind, error, r) ==
  /\ sys = "pq"
  /\ tasks[p].pc = "calling"
  /\ IF kind = "ok"
     THEN /\ tasks' = [tasks EXCEPT ![p].pc = "returned"]
          /\ UNCHANGED <<tpmWindow, rpmWindow>>
     ELSE /\ tpmWindow' = GetMetrics(tpmWindow, now).sw
          /\ rpmWindow' = GetMetrics(rpmWindow, now).sw
          /\ tasks' = [tasks EXCEPT ![p] =
               IF @.attempt < PqMaxRetries /\ PqIsRetryable(error)
               THEN [@ EXCEPT !.lastError = error, !.pc = "sleeping", !.onRetry = @ + 1,
                              !.wakeAt = now + Floor(PqCalculateBackoff(
                                           tasks[p].attempt, error, pqBackoffBase,
                                           pqBackoffMax, r))]
               ELSE [@ EXCEPT !.lastError = error, !.pc = "thrown", !.onError = @ + 1]]
  /\ UNCHANGED <<sys, applied, chainVars, arlVars, slidingWindow, ftVars, job, chunks,
                 orch, aborted, chunkResults, tripped>>

\* await this.sleep(backoffMs) ends: continue with the next attempt
PqBackoffWake(p) ==
  /\ sys = "pq"
  /\ tasks[p].pc = "sleeping"
  /\ LET t == Max(now, tasks[p].wakeAt)
     IN  /\ t <= MaxNow
         /\ now' = t
         /\ PqBeginAttempt(p, tasks[p].attempt + 1, t)
  /\ UNCHANGED <<sys, applied, requests, arlVars, slidingWindow, ftVars, job, chunks,
                 orch, aborted, chunkResults, tripped>>

NextPq ==
  \/ \E p \in PqTaskIds : PqAdd(p)
  \/ PqRlWake
  \/ \E p \in PqTaskIds, kind \in {"ok", "throw"}, error \in PqErrors, r \in JitterSet :
       PqTaskReturns(p, kind, error, r)
  \/ \E p \in PqTaskIds : PqBackoffWake(p)

SpecPq == InitPq /\ [][NextPq]_vars

\* the acquire calls of task p that have returned
PqAdmittedOf(p) ==
  { id \in Admitted(admitted) : \E a \in 0..PqMaxRetries : id = PqRequestId(p, a) }

\* C35: ProcessingQueue.add attempts a task at most maxRetries + 1 times, each
\* attempt after an acquire of its own; an error that is not retryable ends the
\* task at once with no backoff; onError is called exactly once for a task that
\* fails for good and never for one that succeeds
C35_QueueRetries ==
  /\ [](sys = "pq" =>
         \A p \in PqTaskIds :
           /\ tasks[p].invoked <= PqMaxRetries + 1
           /\ Cardinality(PqAdmittedOf(p)) = tasks[p].invoked
           /\ tasks[p].pc = "thrown" => tasks[p].onError = 1
           /\ tasks[p].pc # "thrown" => tasks[p].onError = 0
           /\ (tasks[p].pc = "thrown" /\ tasks[p].attempt = 0) => tasks[p].invoked = 1)
  /\ [][sys = "pq" =>
         \A p \in PqTaskIds :
           (tasks[p].pc = "calling" /\ tasks'[p].pc # "calling"
              /\ tasks'[p].pc # "returned" /\ tasks'[p].lastError = InvalidKeyError)
             => /\ tasks'[p].pc = "thrown"
                /\ tasks'[p].onRetry = tasks[p].onRetry]_vars

\* a task has failed for good after maxRetries + 1 invocations, the other at once
C35_Witness ==
  /\ sys = "pq"
  /\ \E p, q \in PqTaskIds :
       /\ tasks[p].pc = "thrown"
       /\ tasks[p].invoked = PqMaxRetries + 1
       /\ tasks[q].pc = "thrown"
       /\ tasks[q].invoked = 1
       /\ tasks[q].lastError = InvalidKeyError

(***************************************************************************)
(* The breaker over the life of a job                                      *)
(***************************************************************************)
\* C36: once shouldAbort() has been true for the job's FailureTracker it stays
\* true: a later recordSuccess of a task still in flight does not release it
C36_BreakerLatched ==
  (sys = "job" /\ tripped) => ShouldAbort(failureTracker)

\* the part that holds: the total count never goes down, so a breaker tripped by
\* the total threshold stays tripped
C36_TotalThresholdLatched ==
  [][sys = "job" =>
       /\ failureTracker'.totalFailures >= failureTracker.totalFailures
       /\ failureTracker.totalFailures >= maxTotalFailures => ShouldAbort(failureTracker')]_vars

\* the breaker tripped on three failures in a row and a success has released it
C36_BreakerReleased ==
  /\ sys = "job"
  /\ tripped
  /\ ~ShouldAbort(failureTracker)
  /\ failureTracker.consecutiveFailures = 0
  /\ failureTracker.totalFailures >= maxConsecutiveFailures

(***************************************************************************)
(* Admission under fairness: timers fire, so a sleeping acquireInternal    *)
(* wakes when its sleep is over                                            *)
(***************************************************************************)
\* raw estimates, each within the effective token limit of every configuration
LiveEstSet == {40, 55}

\* the acquire calls are made at the instant 0; time advances by the timers
NextLive ==
  \/ \E r \in RequestIds, est \in LiveEstSet : now = 0 /\ ArlAcquire(r, est)
  \/ ArlWake
  \/ \E r \in RequestIds : \E a \in ActualSet(requests[r].est) : ArlRecordActual(r, a)

SpecLive == InitArl /\ [][NextLive]_vars /\ WF_vars(ArlWake)

\* acquire was called for r and has not returned
Waiting(r) == sys = "arl" /\ requests[r].st = "called"

\* C37: provided time advances and the raw estimate is at most the effective
\* token limit, every acquire call eventually returns
C37_EveryAcquireReturns ==
  \A r \in RequestIds :
    (Waiting(r) /\ requests[r].est <= tpmLimit) ~> ~Waiting(r)

\* the estimate of request q, inflated by the safety multiplier, is within the limit
InflatedFits(q) == SafeEstimate(requests[q].est, safetyMultiplier) <= tpmLimit
\* the part that holds: an acquire returns when its inflated estimate and the
\* inflated estimates of the calls ahead of it on the chain are within the limit
C37_ReturnsWhenInflatedFits ==
  \A r \in RequestIds :
    (Waiting(r) /\ \A q \in 1..r : InflatedFits(q)) ~> ~Waiting(r)

\* an acquire whose raw estimate is within the limit sleeps on an empty window
C37_WaitsOnEmptyWindow ==
  /\ sys = "arl"
  /\ internal # NoCall
  /\ window = <<>>
  /\ requests[internal.requestId].est <= tpmLimit
  /\ internal.tokens > tpmLimit
  /\ Waiting(internal.requestId)
  /\ now >= windowMs

\* the inflated estimate is computed once, before the loop: a call that sleeps
\* with an inflated estimate above the limit is still the sleeping call after
\* every step, whatever the clock shows
C37_BlockedCallStaysBlocked ==
  [][(internal # NoCall /\ internal.tokens > tpmLimit)
       => (internal' # NoCall /\ internal'.requestId = internal.requestId
           /\ internal'.tokens = internal.tokens /\ tpmLimit' = tpmLimit)]_vars

\* ---------------------------------------------------------------------------
\* processVideoInBackground under fair scheduling: timers fire and every remote
\* call returns or throws
\* ---------------------------------------------------------------------------

\* token counts of a chunk: a short one and one of a long, dense chunk
LiveJobEstSet == {1000, 200000}

CountChunkTokensStep(c) == \E est \in LiveJobEstSet : CountChunkTokensReturns(c, est)
AnalyzeChunkStep(c) ==
  \E kind \in {"ok", "empty", "throw"}, a \in SmallActualSet, error \in JobErrors,
     r \in JitterSet : AnalyzeChunkReturns(c, kind, a, error, r)
CountConsolidationTokensStep == \E est \in SmallEstSet : CountConsolidationTokensReturns(est)
ConsolidateChunksStep ==
  \E kind \in {"ok", "throw"}, a \in SmallActualSet, error \in JobErrors, r \in JitterSet :
     ConsolidateChunksReturns(kind, a, error, r)

\* the wake-ups of acquireInternal that the model follows
LiveMaxNow == 70000
LiveAcquireWake == Max(now, internal.wakeAt) <= LiveMaxNow /\ AcquireWake

NextJobLive ==
  \/ ProcessVideoInBackground
  \/ \E c \in ChunkIds : CountChunkTokensStep(c)
  \/ LiveAcquireWake
  \/ \E c \in ChunkIds : AnalyzeChunkStep(c)
  \/ \E c \in ChunkIds : ChunkBackoffWake(c)
  \/ CountConsolidationTokensStep
  \/ ConsolidateChunksStep
  \/ ConsolidationBackoffWake

\* a remote call of task t (countTokens or generateContent) has not come back yet
RemoteCallPending(t) ==
  /\ sys = "job"
  /\ \/ tasks[t].pc \in {"counting", "calling"}
     \/ t = Consolidation /\ orch = "countingConsolidation"

\* the backoff sleep of the consolidation's executeWithRetry has not ended yet
ConsolidationSleeps == sys = "job" /\ tasks[Consolidation].pc = "sleeping"

\* the background function starts and timers fire (weak fairness on the wake-ups
\* of acquireInternal and of the chunk tasks' backoff; the consolidation's backoff
\* sleep does not last for ever), and no remote call stays pending for ever
SpecJobLive ==
  /\ InitJob
  /\ [][NextJobLive]_vars
  /\ WF_vars(ProcessVideoInBackground)
  /\ WF_vars(LiveAcquireWake)
  /\ \A c \in ChunkIds : WF_vars(ChunkBackoffWake(c))
  /\ []<>(~ConsolidationSleeps)
  /\ \A t \in TaskIds : []<>(~RemoteCallPending(t))

Terminal == job.status \in {"completed", "failed"}

\* a rateLimiter.acquire of the job sleeps with an inflated estimate above the limit
AcquireNeverFits ==
  /\ internal # NoCall
  /\ internal.tokens > tpmLimit

\* C38: every job on which processVideoInBackground runs eventually reaches
\* completed or failed, when timers fire and every remote call returns or throws.
C38_JobTerminates == (sys = "job") ~> Terminal

\* a job ends unless one of its acquire calls has an inflated estimate above the
\* effective token limit
C38_TerminatesUnlessAcquireBlocked == (sys = "job") ~> (Terminal \/ AcquireNeverFits)

\* a job still processing while its chunk task waits, on an empty window, for
\* capacity that its estimate can never get
C38_JobStuckInAcquire ==
  /\ sys = "job"
  /\ job.status = "processing"
  /\ AcquireNeverFits
  /\ window = <<>>
  /\ now >= windowMs

(***************************************************************************)
(* Job pipeline: what the stored job holds in each status                  *)
(***************************************************************************)
\* createJob leaves job.result and job.error unset; the model writes "" for a
\* field that holds nothing
Stored(field) == field # ""

C40_TerminalStateFrozen ==
  [][(sys = "job" /\ job.status \in {"completed", "failed"})
       => (job' = job /\ chunks' = chunks)]_vars

\* a completed job is left alone, and a failed job keeps its status and its error
C40_CompletedFrozenFailedKept ==
  [][/\ (sys = "job" /\ job.status = "completed") => (job' = job /\ chunks' = chunks)
     /\ (sys = "job" /\ job.status = "failed")
          => (job'.status = "failed" /\ job'.error = job.error)]_vars

\* a job failed on three failures in a row; an attempt that was in flight then
\* returned: its chunk is stored as completed, its tokens are counted
C40_CompletedAfterFailure ==
  /\ sys = "job"
  /\ job.status = "failed"
  /\ job.error = "consecutive failures"
  /\ failureTracker.consecutiveFailures = 0
  /\ job.totalTokensUsed > 0
  /\ \E c \in ChunkIds : chunks[c].status = "completed" /\ chunks[c].retryCount > 0
=============================================================================
